---- MODULE Spec2Model ----
(***************************************************************************)
(* Model of the hotline realtime client (src/src/client.rs) together with  *)
(* the two tasks it spawns: the inbound reader of one connection           *)
(* (start_handling_messages) and the event handler (handle_events), and of *)
(* the audio pipelines (src/src/audio_utils.rs, src/src/audio_playback.rs):*)
(* the playback and recording threads, the device callbacks and the        *)
(* conversion of samples.                                                  *)
(*                                                                         *)
(* A client method takes &mut self, so the methods of one client run one   *)
(* after the other; each is one action, from its call to its return.  The  *)
(* reader tasks and the event handler are spawned tasks and interleave     *)
(* with the methods one loop iteration at a time.                          *)
(***************************************************************************)
EXTENDS Integers, Sequences, FiniteSets

\* ------------------------------------------------------------------ bounds

\* Transport operations that succeed in one run: handshakes, envelopes
\* written on a send lane and texts delivered by a receive lane.
MaxTransportOps == 4

\* Events the channel accepts in one run of the event handler on its own,
\* and the events published beyond the channel's capacity in a run of the
\* senders that fill it.
MaxEvents == 4

\* Samples in one run of the audio pipelines: those the Play commands carry,
\* one for each Stop, and those the input device delivers.
MaxSamples == 6

\* Output slots the output device asks for in one run.
MaxSlots == 3

\* The samples of a chunk resample_and_convert_channels or
\* base64_encode_audio is called on, the long chunks apart.
MaxLen == 2

\* The slots of a ring buffer.  RING_BUFFER_CAPACITY is 2_400_000 in
\* audio_utils.rs, and so is CHUNK_SIZE; the model keeps them equal.
RingCapacity == 2

\* --------------------------------------------------------------- constants

\* mpsc::channel(100): the capacity of the event channel.
ChannelCapacity == 100

\* Option::None for ws_read and ws_write; connections are numbered from 1.
None == 0

Conns == 1..MaxTransportOps

\* base64 payloads of input_audio_buffer.append and message contents.
AudioPayloads == {"AAAA"}
MessageContents == {"hello"}

VARIABLES
    is_connected,    \* RealtimeClient.is_connected
    ws_read,         \* RealtimeClient.ws_read: None or the connection whose receive lane it holds
    ws_write,        \* RealtimeClient.ws_write: None or the connection whose send lane it holds
    session_config,  \* RealtimeClient.session_config (SessionConfig::default())
    task,            \* per connection: the state of its inbound reader task
    handler,         \* the state of the handle_events task
    channel,         \* events in the mpsc channel, oldest first
    wire,            \* every message the transport accepted on a send lane, in order
    published,       \* every event the channel accepted, in order
    received,        \* every text a receive lane delivered to a reader task, in order
    nextConn,        \* the next connection a successful handshake opens
    nextEventId,     \* the next fresh value of Uuid::new_v4
    last,            \* the last client method called and what it returned
    conversation_tracker, \* the ConversationTracker of the transcript display
    audio_sender,    \* the commands in the playback channel, oldest first
    output,          \* the output device's sample rate and channels
    playback,        \* the state of the playback thread, which holds the receiver
    playback_ring,   \* the ring buffer of the playback thread, oldest sample first
    pushing,         \* the samples of the command the playback loop is in, not yet looked at
    played,          \* every slot the output callbacks filled, in order
    nextSample,      \* the next sample a Play command carries (samples are numbered from 1)
    stopsSent,       \* the Stop commands sent so far
    cutoff,          \* the last sample received before the last Stop the loop processed
    audio_buffer,    \* the VecDeque of audio_playback.rs
    audio_buffer_lock, \* who holds the Mutex around it
    recording_ring,  \* the ring buffer of the recording thread, oldest sample first
    buffer,          \* the chunk the recording loop is filling
    recording,       \* the chunks in the recording channel, oldest first
    accepted,        \* every sample the input callback pushed, in order
    delivered,       \* the samples the input device delivered so far
    input,           \* the input device's sample rate and channels
    recorder,        \* the state of the recording thread
    forwarder,       \* the state of whoever holds the recording receiver
    forwarded,       \* what convert_audio_to_server returned, in order
    conv             \* the last call of resample_and_convert_channels and its result

\* The playback thread of audio_utils.rs and what feeds it.
playbackVars == <<playback_ring, pushing, played, nextSample, stopsSent, cutoff>>

\* The playback of audio_playback.rs.
legacyVars == <<audio_buffer, audio_buffer_lock>>

\* The recording thread of audio_utils.rs and what it feeds.
captureVars == <<recording_ring, buffer, recording, accepted, delivered, input,
                 recorder, forwarder, forwarded>>

audioVars == <<playbackVars, legacyVars, captureVars, conv>>

vars == <<is_connected, ws_read, ws_write, session_config, task, handler,
          channel, wire, published, received, nextConn, nextEventId, last,
          conversation_tracker, audio_sender, output, playback, audioVars>>

\* What handle_events owns besides the channel's receiver.
handlerVars == <<conversation_tracker, audio_sender, output, playback>>

clientVars == <<is_connected, ws_read, ws_write, session_config>>

\* ------------------------------------------------------------ JSON values

\* A JSON object is a function from its keys to their values.
\* event_data.as_object_mut().extend(data.as_object().clone()): the keys of
\* data are added, a key present on both sides takes data's value.
Extend(obj, data) ==
    [k \in (DOMAIN obj) \cup (DOMAIN data) |->
        IF k \in DOMAIN data THEN data[k] ELSE obj[k]]

\* The empty JSON object, for send(type, None).
NoData == [k \in {} |-> ""]

\* value["type"].as_str().unwrap_or("unknown")
EventTypeOf(value) ==
    IF "type" \in DOMAIN value THEN value["type"] ELSE "unknown"

\* The texts a server may send.  serde_json::from_str fails on the first; the
\* others parse: an object without a type, an error envelope, and a
\* transcript delta without its fields.
InboundTexts ==
    { [json |-> FALSE, value |-> NoData],
      [json |-> TRUE,  value |-> [id |-> "x"]],
      [json |-> TRUE,  value |-> [type |-> "error"]],
      [json |-> TRUE,  value |-> [type |-> "response.audio_transcript.delta"]] }

\* What ws_read.next().await yields: Some(Ok(Message::Text)), Some(Ok(other
\* message)), Some(Err), or None at the end of the stream.
InboundResults ==
    { [kind |-> "Text", text |-> t] : t \in InboundTexts }
      \cup { [kind |-> k, text |-> [json |-> FALSE, value |-> NoData]] :
                k \in {"Other", "Err", "End"} }

\* ------------------------------------------------------------------- Init

Init ==
    /\ is_connected = FALSE
    /\ ws_read = None
    /\ ws_write = None
    /\ session_config = "default"
    /\ task = [c \in Conns |-> "none"]
    /\ handler = "starting"
    /\ channel = << >>
    /\ wire = << >>
    /\ published = << >>
    /\ received = << >>
    /\ nextConn = 1
    /\ nextEventId = 1
    /\ last = [op |-> "new", result |-> "ok", attempts |-> 0]
    /\ conversation_tracker = [item_order |-> << >>, item_map |-> << >>]
    /\ audio_sender = << >>
    /\ output = [sample_rate |-> 0, channels |-> 0]
    /\ playback = "none"
    /\ playback_ring = << >>
    /\ pushing = << >>
    /\ played = << >>
    /\ nextSample = 1
    /\ stopsSent = 0
    /\ cutoff = 0
    /\ audio_buffer = << >>
    /\ audio_buffer_lock = "free"
    /\ recording_ring = << >>
    /\ buffer = << >>
    /\ recording = << >>
    /\ accepted = << >>
    /\ delivered = 0
    /\ input = [sample_rate |-> 0, channels |-> 0]
    /\ recorder = "none"
    /\ forwarder = "none"
    /\ forwarded = << >>
    /\ conv = [call |-> "none"]

\* ------------------------------------------------------------------- send

\* serde_json::json!({"type": event_type, "event_id": Uuid::new_v4()}) extended
\* by the fields of data.  Uuid::new_v4 is modelled by a value no earlier
\* envelope on the wire carries.
Envelope(event_type, id, data) ==
    Extend([type |-> event_type, event_id |-> id], data)

\* A send lane that hands the newest text to the transport first.
WriteTextFirst(w, lane, env) ==
    <<[conn |-> lane, kind |-> "Text", env |-> env]>> \o w

\* ws_write.send(Message::Text(message)): the transport takes the text after
\* everything it took before.
WriteText(w, lane, env) ==
    Append(w, [conn |-> lane, kind |-> "Text", env |-> env])

\* ws_write.send(Message::Close(None))
WriteClose(w, lane) ==
    Append(w, [conn |-> lane, kind |-> "Close", env |-> NoData])

\* A local event built from the envelope before data was merged into it.
LocalEventBare(event_type, env) ==
    [event_type |-> event_type, source |-> "client",
     data |-> [type |-> env.type, event_id |-> env.event_id]]

\* The Event send publishes locally.
LocalEvent(event_type, env) ==
    [event_type |-> event_type, source |-> "client", data |-> env]

\* The Event the reader task publishes for a parsed text.
ServerEvent(value) ==
    [event_type |-> EventTypeOf(value), source |-> "server", data |-> value]

\* What one call of send works on and returns: the wire, the channel, the
\* published events, the uuid source, the Result and the transport writes it
\* attempted.
IO ==
    [wire |-> wire, channel |-> channel, published |-> published,
     nextEventId |-> nextEventId, result |-> "ok", attempts |-> 0]

\* send publishing the local event before it looks at the send lane.
SendEchoFirst(io, lane, closed, event_type, data, writeOk) ==
    LET env == Envelope(event_type, io.nextEventId, data)
        ev  == LocalEvent(event_type, env)
        io1 == IF closed THEN io
               ELSE [io EXCEPT !.channel = Append(io.channel, ev),
                               !.published = Append(io.published, ev)]
    IN  IF lane = None
        THEN [io1 EXCEPT !.result = "not_connected"]
        ELSE IF ~writeOk
        THEN [io1 EXCEPT !.result = "write_failed",
                         !.attempts = io.attempts + 1]
        ELSE [io1 EXCEPT !.wire = WriteText(io.wire, lane, env),
                         !.nextEventId = io.nextEventId + 1,
                         !.attempts = io.attempts + 1,
                         !.result = IF closed THEN "channel_closed" ELSE "ok"]

\* RealtimeClient::send on io, with self.ws_write = lane; writeOk is whether
\* the transport accepts the write, closed whether the event handler has
\* dropped the channel's receiver.
Send(io, lane, closed, event_type, data, writeOk) ==
    LET env == Envelope(event_type, io.nextEventId, data)
        ev  == LocalEvent(event_type, env)
    IN  IF lane = None
        THEN [io EXCEPT !.result = "not_connected"]
        ELSE IF ~writeOk
        THEN [io EXCEPT !.result = "write_failed",
                        !.attempts = io.attempts + 1]
        ELSE IF closed
        THEN [io EXCEPT !.wire = WriteText(io.wire, lane, env),
                        !.nextEventId = io.nextEventId + 1,
                        !.attempts = io.attempts + 1,
                        !.result = "channel_closed"]
        ELSE [io EXCEPT !.wire = WriteText(io.wire, lane, env),
                        !.nextEventId = io.nextEventId + 1,
                        !.attempts = io.attempts + 1,
                        !.channel = Append(io.channel, ev),
                        !.published = Append(io.published, ev),
                        !.result = "ok"]

\* A channel without a bound.
ChannelNeverFull(n) == TRUE

\* event_sender.send(event).await returns once the channel has room, or at
\* once with an error when the receiver is gone.
ChannelAccepts(n) ==
    handler = "dead" \/ Len(channel) + n <= ChannelCapacity

\* The transport operations that have succeeded so far.
TransportOps == (nextConn - 1) + (nextEventId - 1) + Len(received)

\* The primed state of a method that ends with the io record r.
Returns(op, r) ==
    /\ TransportOps + (r.nextEventId - nextEventId) <= MaxTransportOps
    /\ wire' = r.wire
    /\ channel' = r.channel
    /\ published' = r.published
    /\ nextEventId' = r.nextEventId
    /\ last' = [op |-> op, result |-> r.result, attempts |-> r.attempts]

\* A method that returns an error before it touches anything.
Fails(op, result) ==
    /\ last' = [op |-> op, result |-> result, attempts |-> 0]
    /\ UNCHANGED <<wire, channel, published, nextEventId>>

\* --------------------------------------------------------- client methods

\* connect without its check of is_connected.
ConnectNeverRefuses == FALSE

\* if self.is_connected { bail!("... already connected ...") }
ConnectRefuses == is_connected

\* disconnect without its check of is_connected.
DisconnectNeverRefuses == FALSE

\* disconnect's else branch: bail!("RealtimeClient is not connected")
DisconnectRefuses == ~is_connected

\* The receive lane of connection c is held by the client or by a reader task.
ReceiveLaneHeld(c) == ws_read = c \/ task[c] = "running"

\* The send lane of connection c is held by the client.
SendLaneHeld(c) == ws_write = c

\* RealtimeClient::connect.  open is "ok" when Url::parse, into_client_request
\* and connect_async all succeed; writeOk is whether the transport accepts the
\* session.update.
Connect(open, writeOk) ==
    /\ IF ConnectRefuses
       THEN /\ Fails("connect", "already_connected")
            /\ UNCHANGED <<is_connected, ws_read, ws_write, task, nextConn>>
       ELSE IF open # "ok"
       THEN /\ Fails("connect", open)
            /\ UNCHANGED <<is_connected, ws_read, ws_write, task, nextConn>>
       ELSE /\ TransportOps < MaxTransportOps
            /\ ChannelAccepts(1)
            /\ LET c == nextConn
                   r == Send(IO, c, handler = "dead", "session.update",
                             [session |-> session_config], writeOk)
               IN  /\ ws_write' = c
                   /\ is_connected' = TRUE
                   \* start_handling_messages: self.ws_read.take() moves the
                   \* receive lane into the spawned task
                   /\ ws_read' = None
                   /\ task' = [task EXCEPT ![c] = "running"]
                   /\ nextConn' = c + 1
                   /\ TransportOps + 1 + (r.nextEventId - nextEventId) <= MaxTransportOps
                   /\ Returns("connect", r)
    /\ UNCHANGED <<session_config, handler, received, handlerVars, audioVars>>

\* A disconnect that gives up the send lane when the close message is
\* refused, and keeps the flag.
DisconnectDropsLane(writeOk) ==
    /\ IF DisconnectRefuses
       THEN /\ Fails("disconnect", "not_connected")
            /\ UNCHANGED <<is_connected, ws_read, ws_write>>
       ELSE IF ws_write # None /\ ~writeOk
       THEN /\ last' = [op |-> "disconnect", result |-> "write_failed", attempts |-> 1]
            /\ ws_write' = None
            /\ UNCHANGED <<wire, channel, published, nextEventId>>
            /\ UNCHANGED <<is_connected, ws_read>>
       ELSE /\ wire' = IF ws_write # None THEN WriteClose(wire, ws_write) ELSE wire
            /\ ws_write' = None
            /\ ws_read' = None
            /\ is_connected' = FALSE
            /\ last' = [op |-> "disconnect", result |-> "ok",
                        attempts |-> IF ws_write # None THEN 1 ELSE 0]
            /\ UNCHANGED <<channel, published, nextEventId>>
    /\ UNCHANGED <<session_config, task, handler, received, nextConn, handlerVars, audioVars>>

\* RealtimeClient::disconnect.  writeOk is whether the transport accepts the
\* close message.
Disconnect(writeOk) ==
    /\ IF DisconnectRefuses
       THEN /\ Fails("disconnect", "not_connected")
            /\ UNCHANGED <<is_connected, ws_read, ws_write>>
       ELSE IF ws_write # None /\ ~writeOk
       THEN /\ last' = [op |-> "disconnect", result |-> "write_failed", attempts |-> 1]
            /\ UNCHANGED <<wire, channel, published, nextEventId>>
            /\ UNCHANGED <<is_connected, ws_read, ws_write>>
       ELSE /\ wire' = IF ws_write # None THEN WriteClose(wire, ws_write) ELSE wire
            /\ ws_write' = None
            /\ ws_read' = None
            /\ is_connected' = FALSE
            /\ last' = [op |-> "disconnect", result |-> "ok",
                        attempts |-> IF ws_write # None THEN 1 ELSE 0]
            /\ UNCHANGED <<channel, published, nextEventId>>
    /\ UNCHANGED <<session_config, task, handler, received, nextConn, handlerVars, audioVars>>

\* A method that is one call of send.
SendMethod(op, event_type, data, writeOk) ==
    /\ ChannelAccepts(1)
    /\ Returns(op, Send(IO, ws_write, handler = "dead", event_type, data, writeOk))
    /\ UNCHANGED <<clientVars, task, handler, received, nextConn, handlerVars, audioVars>>

\* RealtimeClient::update_session
UpdateSession(writeOk) ==
    SendMethod("update_session", "session.update",
               [session |-> session_config], writeOk)

\* RealtimeClient::create_response
CreateResponse(writeOk) ==
    SendMethod("create_response", "response.create", NoData, writeOk)

\* RealtimeClient::input_audio_buffer_append
InputAudioBufferAppend(audio, writeOk) ==
    SendMethod("input_audio_buffer_append", "input_audio_buffer.append",
               [audio |-> audio], writeOk)

\* RealtimeClient::input_audio_buffer_commit
InputAudioBufferCommit(writeOk) ==
    SendMethod("input_audio_buffer_commit", "input_audio_buffer.commit",
               NoData, writeOk)

\* RealtimeClient::send_user_message_content: the item, then create_response
\* unless the first send failed.
SendUserMessageContent(content, writeOk1, writeOk2) ==
    /\ ChannelAccepts(2)
    /\ LET item == [type |-> "message", role |-> "user", content |-> content]
           r1 == Send(IO, ws_write, handler = "dead",
                      "conversation.item.create", [item |-> item], writeOk1)
           r2 == IF r1.result # "ok" THEN r1
                 ELSE Send(r1, ws_write, handler = "dead",
                           "response.create", NoData, writeOk2)
       IN  Returns("send_user_message_content", r2)
    /\ UNCHANGED <<clientVars, task, handler, received, nextConn, handlerVars, audioVars>>

\* ------------------------------------------------------------ reader task

\* serde_json::from_str::<Value>(&text) succeeds.
ParsesAsJson(text) == text.json

\* A reader that leaves its loop on a text that is not JSON.
OnMessageStrict(res, closed) ==
    CASE res.kind = "Text" /\ ParsesAsJson(res.text) /\ ~closed -> "publish"
      [] res.kind = "Text" /\ ParsesAsJson(res.text) /\ closed -> "ended_channel"
      [] res.kind = "End" -> "ended_eof"
      [] res.kind = "Other" -> "skip"
      [] OTHER -> "ended_error"

\* What one iteration of the reader's loop does with the result res of
\* ws_read.next().await; closed is whether the event handler has dropped the
\* channel's receiver.
OnMessage(res, closed) ==
    CASE res.kind = "Text" /\ ParsesAsJson(res.text) /\ ~closed -> "publish"
      [] res.kind = "Text" /\ ParsesAsJson(res.text) /\ closed -> "ended_channel"
      [] res.kind = "Text" /\ ~ParsesAsJson(res.text) -> "skip"
      [] res.kind = "Err" -> "ended_error"
      [] res.kind = "End" -> "ended_eof"
      [] OTHER -> "skip"

\* One iteration of the loop of the task start_handling_messages spawned for
\* connection c.
ReaderStep(c, res) ==
    /\ task[c] = "running"
    /\ res.kind = "Text" => TransportOps < MaxTransportOps
    /\ ChannelAccepts(1)
    /\ received' = IF res.kind = "Text"
                   THEN Append(received, [conn |-> c, text |-> res.text])
                   ELSE received
    /\ LET does == OnMessage(res, handler = "dead")
       IN  IF does = "publish"
           THEN /\ channel' = Append(channel, ServerEvent(res.text.value))
                /\ published' = Append(published, ServerEvent(res.text.value))
                /\ UNCHANGED task
           ELSE IF does = "skip"
           THEN UNCHANGED <<task, channel, published>>
           ELSE \* break, or the end of the stream
                /\ task' = [task EXCEPT ![c] = does]
                /\ UNCHANGED <<channel, published>>
    /\ UNCHANGED <<clientVars, handler, wire, nextConn, nextEventId, last,
                   handlerVars, audioVars>>

\* ---------------------------------------------------- conversation model

\* Option<String>: None is the empty sequence, Some(s) the sequence of s.
NoString == << >>
SomeString(s) == <<s>>

\* value[key].as_str(): the string under key, None when the key is absent.
AsStr(value, key) ==
    IF key \in DOMAIN value THEN SomeString(value[key]) ELSE NoString

\* The strings ConversationItemContent::new and ConversationItem::new accept.
ContentTypes == {"text", "audio", "input_text", "input_audio"}
Roles == {"user", "assistant", "system"}
Statuses == {"completed", "in_progress", "incomplete"}

\* ConversationItemContent::new
ConversationItemContent(content_type, text, audio, transcript) ==
    [content_type |-> content_type, text |-> text, audio |-> audio,
     transcript |-> transcript]

\* ConversationItem::new
ConversationItem(item_id, role, status, content) ==
    [item_id |-> item_id, role |-> role, status |-> status,
     content |-> content]

\* ConversationItem::get_content_transcript: the transcripts of the parts
\* that have one, concatenated; None when that is empty.
RECURSIVE ConcatTranscripts(_)
ConcatTranscripts(content) ==
    IF content = << >> THEN ""
    ELSE (IF Head(content).transcript = NoString THEN ""
          ELSE Head(content).transcript[1]) \o ConcatTranscripts(Tail(content))

GetContentTranscript(item) ==
    IF ConcatTranscripts(item.content) = "" THEN NoString
    ELSE SomeString(ConcatTranscripts(item.content))

\* ConversationTracker::new
NewTracker == [item_order |-> << >>, item_map |-> [k \in {} |-> 0]]

\* An add_item that pushes the id without inserting the item.
AddItemOrderOnly(t, item) ==
    [t EXCEPT !.item_order = Append(t.item_order, item.item_id)]

\* An add_item that puts the newest item first.
AddItemFirst(t, item) ==
    [item_order |-> <<item.item_id>> \o t.item_order,
     item_map |-> [k \in (DOMAIN t.item_map) \cup {item.item_id} |->
                      IF k = item.item_id THEN item ELSE t.item_map[k]]]

\* ConversationTracker::add_item: push the id, insert (or replace) the item.
AddItem(t, item) ==
    [item_order |-> Append(t.item_order, item.item_id),
     item_map |-> [k \in (DOMAIN t.item_map) \cup {item.item_id} |->
                      IF k = item.item_id THEN item ELSE t.item_map[k]]]

\* update_item_content_transcript unwraps the transcript of an existing part.
UpdateItemContentTranscriptPanics(t, item_id, index) ==
    /\ item_id \in DOMAIN t.item_map
    /\ index < Len(t.item_map[item_id].content)
    /\ t.item_map[item_id].content[index + 1].transcript = NoString

\* ConversationTracker::update_item_content_transcript.  Content indices
\* count from 0, sequences from 1.
UpdateItemContentTranscript(t, item_id, index, transcript_delta) ==
    IF item_id \notin DOMAIN t.item_map THEN t
    ELSE IF index < Len(t.item_map[item_id].content)
    THEN [t EXCEPT !.item_map[item_id].content[index + 1].transcript =
                        SomeString(@[1] \o transcript_delta)]
    ELSE [t EXCEPT !.item_map[item_id].content =
                        Append(@, ConversationItemContent("text", NoString,
                                    NoString, SomeString(transcript_delta)))]

\* A done that appends the final transcript to what the deltas built.
ItemContentTranscriptDoneAppends(t, item_id, index, transcript) ==
    IF item_id \notin DOMAIN t.item_map THEN t
    ELSE IF index < Len(t.item_map[item_id].content)
    THEN [t EXCEPT !.item_map[item_id].content[index + 1].transcript =
                        SomeString((IF @ = NoString THEN "" ELSE @[1])
                                   \o transcript)]
    ELSE t

\* ConversationTracker::item_content_transcript_done
ItemContentTranscriptDone(t, item_id, index, transcript) ==
    IF item_id \notin DOMAIN t.item_map THEN t
    ELSE IF index < Len(t.item_map[item_id].content)
    THEN [t EXCEPT !.item_map[item_id].content[index + 1].transcript =
                        SomeString(transcript)]
    ELSE t

\* ConversationTracker::update_item_status
UpdateItemStatus(t, item_id, status) ==
    IF item_id \notin DOMAIN t.item_map THEN t
    ELSE [t EXCEPT !.item_map[item_id].status = status]

\* An item of conversation.item.created that the closure cannot decode: an
\* unwrap() of an absent field, or a content type, role or status that the
\* constructors do not recognize.
ItemPanics(data) ==
    \/ "item" \notin DOMAIN data
    \/ "content" \notin DOMAIN data.item
    \/ \E i \in DOMAIN data.item.content :
          \/ "type" \notin DOMAIN data.item.content[i]
          \/ data.item.content[i].type \notin ContentTypes
    \/ "id" \notin DOMAIN data.item
    \/ "role" \notin DOMAIN data.item
    \/ "status" \notin DOMAIN data.item
    \/ data.item.role \notin Roles
    \/ data.item.status \notin Statuses

\* The ConversationItem built from the item of conversation.item.created.
ItemOf(data) ==
    ConversationItem(
        data.item.id, data.item.role, data.item.status,
        [i \in DOMAIN data.item.content |->
            ConversationItemContent(data.item.content[i].type,
                                    AsStr(data.item.content[i], "text"),
                                    AsStr(data.item.content[i], "audio"),
                                    AsStr(data.item.content[i], "transcript"))])

\* The event types the closure of create_transcript_display folds.
TranscriptTypes ==
    {"conversation.item.created",
     "response.audio_transcript.delta",
     "response.audio_transcript.done",
     "conversation.item.input_audio_transcription.completed"}

\* The fold of create_transcript_display: the tracker after the match on the
\* event type, for an event on which nothing panics.
TranscriptDisplay(t, event) ==
    CASE event.event_type = "conversation.item.created" ->
            AddItem(t, ItemOf(event.data))
      [] event.event_type = "response.audio_transcript.delta" ->
            UpdateItemContentTranscript(t, event.data.item_id,
                                        event.data.content_index,
                                        event.data.delta)
      [] event.event_type \in
            {"response.audio_transcript.done",
             "conversation.item.input_audio_transcription.completed"} ->
            ItemContentTranscriptDone(
                UpdateItemStatus(t, event.data.item_id, "completed"),
                event.data.item_id, event.data.content_index,
                event.data.transcript)
      [] OTHER -> t

\* What the closure prints: one line per entry of item_order, with the
\* entry's position, role, transcript and status.
Screen(t) ==
    [i \in DOMAIN t.item_order |->
        LET item == t.item_map[t.item_order[i]]
        IN  [index |-> i - 1, role |-> item.role,
             text |-> ConcatTranscripts(item.content),
             status |-> item.status]]

\* -------------------------------------------------------- audio from server

SERVER_SAMPLE_RATE == 24000
SERVER_CHANNELS == 1
I16_MAX == 32767

\* The alphabet of BASE64_STANDARD.
Base64Alphabet ==
    <<"A", "B", "C", "D", "E", "F", "G", "H", "I", "J", "K", "L", "M",
      "N", "O", "P", "Q", "R", "S", "T", "U", "V", "W", "X", "Y", "Z",
      "a", "b", "c", "d", "e", "f", "g", "h", "i", "j", "k", "l", "m",
      "n", "o", "p", "q", "r", "s", "t", "u", "v", "w", "x", "y", "z",
      "0", "1", "2", "3", "4", "5", "6", "7", "8", "9", "+", "/">>

\* The six bits a character stands for, or -1 outside the alphabet.
Base64Index(c) ==
    IF \E i \in 1..64 : Base64Alphabet[i] = c
    THEN (CHOOSE i \in 1..64 : Base64Alphabet[i] = c) - 1
    ELSE -1

\* BASE64_STANDARD.decode on a text given character by character: three
\* bytes for four characters; padding is required, allowed in the last
\* group only, and the bits it leaves unused have to be zero.
RECURSIVE Base64DecodeChars(_)
Base64DecodeChars(chars) ==
    LET bad == [ok |-> FALSE, bytes |-> << >>]
    IN  IF chars = << >> THEN [ok |-> TRUE, bytes |-> << >>]
        ELSE IF Len(chars) < 4 THEN bad
        ELSE LET a == Base64Index(chars[1])
                 b == Base64Index(chars[2])
                 c == Base64Index(chars[3])
                 d == Base64Index(chars[4])
                 rest == Base64DecodeChars(SubSeq(chars, 5, Len(chars)))
             IN  IF a < 0 \/ b < 0 THEN bad
                 ELSE IF chars[3] = "="
                 THEN IF chars[4] = "=" /\ Len(chars) = 4 /\ b % 16 = 0
                      THEN [ok |-> TRUE, bytes |-> <<a * 4 + b \div 16>>]
                      ELSE bad
                 ELSE IF c < 0 THEN bad
                 ELSE IF chars[4] = "="
                 THEN IF Len(chars) = 4 /\ c % 4 = 0
                      THEN [ok |-> TRUE,
                            bytes |-> <<a * 4 + b \div 16,
                                        (b % 16) * 16 + c \div 4>>]
                      ELSE bad
                 ELSE IF d < 0 \/ ~rest.ok THEN bad
                 ELSE [ok |-> TRUE,
                       bytes |-> <<a * 4 + b \div 16,
                                   (b % 16) * 16 + c \div 4,
                                   (c % 4) * 64 + d>> \o rest.bytes]

\* The characters of the payloads the servers of this model send; any
\* other string has a character outside the alphabet.
Base64Chars(payload) ==
    CASE payload = "" -> << >>
      [] payload = "AAAA" -> <<"A", "A", "A", "A">>
      [] payload = "AQACAA==" -> <<"A", "Q", "A", "C", "A", "A", "=", "=">>
      [] payload = "/v8=" -> <<"/", "v", "8", "=">>
      [] OTHER -> <<"?">>

\* BASE64_STANDARD.decode
Base64Decode(payload) == Base64DecodeChars(Base64Chars(payload))

\* i16::from_le_bytes
I16FromLeBytes(lo, hi) ==
    IF lo + 256 * hi >= 32768 THEN lo + 256 * hi - 65536 ELSE lo + 256 * hi

\* base64_decode_audio after the decode: chunks_exact(2) leaves out an odd
\* last byte.  A sample n stands for n / I16_MAX.
SamplesOfBytes(bytes) ==
    [k \in 1..(Len(bytes) \div 2) |->
        I16FromLeBytes(bytes[2 * k - 1], bytes[2 * k])]

\* The validation of resample_and_convert_channels.
ConvertError(current_sample_rate, current_num_channels, target_sample_rate, target_num_channels) ==
    \/ current_num_channels \notin {1, 2}
    \/ target_num_channels \notin {1, 2}
    \/ current_sample_rate = 0
    \/ target_sample_rate = 0

\* The resampling loop of resample_and_convert_channels, in exact
\* arithmetic: output i reads the source at i * current / target and
\* interpolates between the sample below and the one above, the latter
\* clamped to the last.  A result n stands for n / target_sample_rate of the
\* unit of the source.
Resample(samples, current_sample_rate, target_sample_rate) ==
    [i \in 1..((Len(samples) * target_sample_rate) \div current_sample_rate) |->
        LET pos == (i - 1) * current_sample_rate
            index_floor == pos \div target_sample_rate
            t == pos % target_sample_rate
            index_ceil == IF index_floor + 1 <= Len(samples) - 1
                          THEN index_floor + 1 ELSE Len(samples) - 1
        IN  samples[index_floor + 1] * (target_sample_rate - t)
              + samples[index_ceil + 1] * t]

\* (1, 2) => flat_map(|s| vec![s, s])
MonoToStereo(samples) ==
    [k \in 1..(2 * Len(samples)) |-> samples[(k + 1) \div 2]]

\* convert_audio_from_server after the decode, for a device on which the
\* validation passes: resample from the server's rate, then mono to the
\* device's channels.
ConvertAudioFromServer(samples, sample_rate, channels) ==
    IF channels = 2
    THEN MonoToStereo(Resample(samples, SERVER_SAMPLE_RATE, sample_rate))
    ELSE Resample(samples, SERVER_SAMPLE_RATE, sample_rate)

\* PlaybackCommand::Play(samples) and PlaybackCommand::Stop
Play(samples) == [cmd |-> "Play", samples |-> samples]
Stop == [cmd |-> "Stop", samples |-> << >>]

\* ---------------------------------------------------------- event handler

\* The fields the handlers of an event type unwrap.
RequiredFields(event_type) ==
    CASE event_type = "conversation.item.created" -> {"item"}
      [] event_type = "response.audio_transcript.delta" ->
            {"item_id", "delta", "content_index"}
      [] event_type = "response.audio_transcript.done" ->
            {"item_id", "content_index", "transcript"}
      [] event_type = "conversation.item.input_audio_transcription.completed" ->
            {"item_id", "content_index", "transcript"}
      [] event_type = "response.audio.delta" -> {"delta"}
      [] OTHER -> {}

\* An unwrap() of a missing field panics the handler task.
HandlerPanics(ev) ==
    \E k \in RequiredFields(ev.event_type) : k \notin DOMAIN ev.data

\* The other panics of the closure of create_transcript_display on an event
\* that has its fields: an item that cannot be decoded, a delta for a part
\* without transcript, and a failed write of the display (tty is whether
\* stdout accepts writes; the closure writes one line per entry of
\* item_order).
TranscriptPanics(t, event, tty) ==
    \/ /\ event.event_type = "conversation.item.created"
       /\ ItemPanics(event.data)
    \/ /\ event.event_type = "response.audio_transcript.delta"
       /\ UpdateItemContentTranscriptPanics(t, event.data.item_id,
                                            event.data.content_index)
    \/ /\ event.event_type \in TranscriptTypes
       /\ ~tty
       /\ TranscriptDisplay(t, event).item_order # << >>

\* The panics of the second match of handle_events: a delta that is not
\* base64, a device convert_audio_from_server rejects, a Stop for a playback
\* thread that is gone, a println! that fails.
DispatchPanics(event, tty) ==
    \/ /\ event.event_type = "response.audio.delta"
       /\ \/ ~Base64Decode(event.data.delta).ok
          \/ ConvertError(SERVER_SAMPLE_RATE, SERVER_CHANNELS,
                          output.sample_rate, output.channels)
    \/ /\ event.event_type = "input_audio_buffer.speech_started"
       /\ playback = "dead"
    \/ /\ event.event_type = "error"
       /\ ~tty

\* A dispatch that takes every server notice about the input buffer for the
\* start of speech.
DispatchStopsOften(sender, event) ==
    CASE event.event_type = "response.audio.delta" ->
            IF playback = "dead" THEN sender
            ELSE Append(sender, Play(ConvertAudioFromServer(
                            SamplesOfBytes(Base64Decode(event.data.delta).bytes),
                            output.sample_rate, output.channels)))
      [] event.event_type \in {"input_audio_buffer.speech_started",
                               "input_audio_buffer.speech_stopped"} ->
            Append(sender, Stop)
      [] OTHER -> sender

\* A dispatch that puts the Stop before what the channel holds.
DispatchStopFirst(sender, event) ==
    CASE event.event_type = "response.audio.delta" ->
            IF playback = "dead" THEN sender
            ELSE Append(sender, Play(ConvertAudioFromServer(
                            SamplesOfBytes(Base64Decode(event.data.delta).bytes),
                            output.sample_rate, output.channels)))
      [] event.event_type = "input_audio_buffer.speech_started" ->
            <<Stop>> \o sender
      [] OTHER -> sender

\* A dispatch that takes the commit of the input buffer for the start of
\* speech.
DispatchStopsOnCommit(sender, event) ==
    CASE event.event_type = "response.audio.delta" ->
            IF playback = "dead" THEN sender
            ELSE Append(sender, Play(ConvertAudioFromServer(
                            SamplesOfBytes(Base64Decode(event.data.delta).bytes),
                            output.sample_rate, output.channels)))
      [] event.event_type \in {"input_audio_buffer.speech_started",
                               "input_audio_buffer.commit"} ->
            Append(sender, Stop)
      [] OTHER -> sender

\* The second match of handle_events: what the playback channel holds after
\* an event on which nothing panics.  A Play for a thread that is gone is
\* logged and lost.
Dispatch(sender, event) ==
    CASE event.event_type = "response.audio.delta" ->
            IF playback = "dead" THEN sender
            ELSE Append(sender, Play(ConvertAudioFromServer(
                            SamplesOfBytes(Base64Decode(event.data.delta).bytes),
                            output.sample_rate, output.channels)))
      [] event.event_type = "input_audio_buffer.speech_started" ->
            Append(sender, Stop)
      [] OTHER -> sender

\* cpal's default output configurations: none, 48 kHz stereo, 48 kHz 5.1.
NoDevice == [sample_rate |-> 0, channels |-> 0]
Stereo == [sample_rate |-> 48000, channels |-> 2]
Surround == [sample_rate |-> 48000, channels |-> 6]

\* handle_events up to its loop: initialize_playback_stream panics without an
\* output device, reads the device's configuration and spawns the playback
\* thread otherwise.
HandlerStart(device) ==
    /\ handler = "starting"
    /\ handler' = IF device # NoDevice THEN "running" ELSE "dead"
    \* a panic drops the receiver and the events it holds
    /\ channel' = IF device # NoDevice THEN channel ELSE << >>
    /\ output' = device
    /\ playback' = IF device # NoDevice THEN "starting" ELSE playback
    /\ UNCHANGED <<clientVars, task, wire, published, received, nextConn,
                   nextEventId, last, conversation_tracker, audio_sender, audioVars>>

\* The playback thread up to its loop: build_output_stream(...).unwrap() and
\* play().unwrap() end the thread, and with it the receiver and the commands
\* it holds, when the device refuses the stream.
PlaybackStart(stream) ==
    /\ playback = "starting"
    /\ playback' = IF stream THEN "running" ELSE "dead"
    /\ audio_sender' = IF stream THEN audio_sender ELSE << >>
    /\ UNCHANGED <<clientVars, task, handler, channel, wire, published,
                   received, nextConn, nextEventId, last,
                   conversation_tracker, output, audioVars>>

\* A receiver that hands out the newest event first.
RecvNewest(ch) ==
    [event |-> ch[Len(ch)], rest |-> SubSeq(ch, 1, Len(ch) - 1)]

\* event_receiver.recv().await on a channel that holds an event.
Recv(ch) == [event |-> Head(ch), rest |-> Tail(ch)]

\* One iteration of the loop of handle_events: the display closure, then the
\* match on the event type.  A panic ends the task, and drops the receiver,
\* the tracker and the sender as they are.
HandleEvent(tty) ==
    /\ handler = "running"
    /\ channel # << >>
    /\ LET event == Recv(channel).event
       IN  IF \/ HandlerPanics(event)
              \/ TranscriptPanics(conversation_tracker, event, tty)
              \/ DispatchPanics(event, tty)
           THEN /\ handler' = "dead"
                /\ channel' = << >>
                /\ UNCHANGED <<conversation_tracker, audio_sender>>
           ELSE /\ handler' = handler
                /\ channel' = Recv(channel).rest
                /\ conversation_tracker' =
                        TranscriptDisplay(conversation_tracker, event)
                /\ audio_sender' = Dispatch(audio_sender, event)
    /\ UNCHANGED <<clientVars, task, wire, published, received, nextConn,
                   nextEventId, last, output, playback, audioVars>>

\* --------------------------------------------------------------- playback

\* What the audio pipelines leave alone of the client and of the handler.
sessionVars == <<clientVars, task, channel, wire, published, received,
                 nextConn, nextEventId, last, conversation_tracker, output>>

\* The samples of one run are numbered in the order the handler sends them:
\* a chunk of n samples that starts at sample first.
Chunk(first, n) == [i \in 1..n |-> first + i - 1]

\* The lengths of the chunks a Play command carries.
ChunkSizes == {1, 2}

\* Whether the run has room for n more samples.
AudioBudget(n) == (nextSample - 1) + stopsSent + delivered + n <= MaxSamples

\* audio_sender.send(PlaybackCommand::Play(samples)) of handle_events on a
\* chunk of n samples: an error, the receiver being gone, is logged.
SendPlay(n) ==
    /\ handler = "running"
    /\ AudioBudget(n)
    /\ audio_sender' = IF playback = "dead" THEN audio_sender
                       ELSE Append(audio_sender, Play(Chunk(nextSample, n)))
    /\ nextSample' = nextSample + n
    /\ UNCHANGED <<sessionVars, handler, playback, playback_ring, pushing,
                   played, stopsSent, cutoff, legacyVars, captureVars, conv>>

\* audio_sender.send(PlaybackCommand::Stop).unwrap() of handle_events: the
\* handler panics when the receiver is gone.
SendStop ==
    /\ handler = "running"
    /\ AudioBudget(1)
    /\ handler' = IF playback = "dead" THEN "dead" ELSE handler
    /\ audio_sender' = IF playback = "dead" THEN audio_sender
                       ELSE Append(audio_sender, Stop)
    /\ stopsSent' = stopsSent + 1
    /\ UNCHANGED <<sessionVars, playback, playback_ring, pushing, played,
                   nextSample, cutoff, legacyVars, captureVars, conv>>

\* playback_rx.recv() of the playback loop hands out a chunk of samples.
PlaybackRecv ==
    /\ playback = "running"
    /\ pushing = << >>
    /\ audio_sender # << >>
    /\ Head(audio_sender).cmd = "Play"
    /\ pushing' = Head(audio_sender).samples
    /\ audio_sender' = Tail(audio_sender)
    /\ UNCHANGED <<sessionVars, handler, playback, playback_ring, played,
                   nextSample, stopsSent, cutoff, legacyVars, captureVars,
                   conv>>

\* A push that overwrites the newest sample of a full buffer.
PushOverwrite(ring, samples) ==
    [ring |-> IF Len(ring) >= RingCapacity
              THEN Append(SubSeq(ring, 1, Len(ring) - 1), Head(samples))
              ELSE Append(ring, Head(samples)),
     samples |-> Tail(samples)]

\* One iteration of "for sample in samples" of the playback loop:
\* producer.is_full() drops the sample with a warning, and try_push appends
\* it otherwise.
Push(ring, samples) ==
    [ring |-> IF Len(ring) >= RingCapacity THEN ring
              ELSE Append(ring, Head(samples)),
     samples |-> Tail(samples)]

PlaybackPush ==
    /\ playback = "running"
    /\ pushing # << >>
    /\ playback_ring' = Push(playback_ring, pushing).ring
    /\ pushing' = Push(playback_ring, pushing).samples
    /\ UNCHANGED <<sessionVars, handler, audio_sender, playback, played,
                   nextSample, stopsSent, cutoff, legacyVars, captureVars,
                   conv>>

\* The first sample the playback loop has not received: that of the oldest
\* Play in the channel, or the next the handler will send.
NextUnreceived(sender) ==
    LET plays == SelectSeq(sender, LAMBDA c : c.cmd = "Play")
    IN  IF plays = << >> THEN nextSample ELSE Head(plays[1].samples)

\* A Stop that leaves the buffer as it is.
ClearNothing(ring) == ring

\* PlaybackCommand::Stop in the playback loop: the buffer is cleared.
Clear(ring) == << >>

\* A loop that takes the oldest Stop out of the channel in the middle of a
\* chunk.
PlaybackStopEarly ==
    /\ playback = "running"
    /\ audio_sender # << >>
    /\ Head(audio_sender).cmd = "Stop"
    /\ playback_ring' = Clear(playback_ring)
    /\ audio_sender' = Tail(audio_sender)
    /\ cutoff' = NextUnreceived(audio_sender) - 1
    /\ UNCHANGED <<sessionVars, handler, playback, pushing, played,
                   nextSample, stopsSent, legacyVars, captureVars, conv>>

\* The loop is between two commands when it takes the Stop.
PlaybackStop ==
    /\ playback = "running"
    /\ pushing = << >>
    /\ audio_sender # << >>
    /\ Head(audio_sender).cmd = "Stop"
    /\ playback_ring' = Clear(playback_ring)
    /\ audio_sender' = Tail(audio_sender)
    /\ cutoff' = NextUnreceived(audio_sender) - 1
    /\ UNCHANGED <<sessionVars, handler, playback, pushing, played,
                   nextSample, stopsSent, legacyVars, captureVars, conv>>

\* A pop that hands out the newest sample.
TryPopNewest(ring) ==
    IF ring = << >> THEN [some |-> FALSE, value |-> 0, rest |-> ring]
    ELSE [some |-> TRUE, value |-> ring[Len(ring)],
          rest |-> SubSeq(ring, 1, Len(ring) - 1)]

\* consumer.try_pop(): the oldest sample, or None from an empty buffer.
TryPop(ring) ==
    IF ring = << >> THEN [some |-> FALSE, value |-> 0, rest |-> ring]
    ELSE [some |-> TRUE, value |-> Head(ring), rest |-> Tail(ring)]

\* The lengths of the frames the output device asks for.
FrameSizes == {1, 2}

\* The closure of build_output_stream on a frame of n slots: each slot gets
\* consumer.try_pop().unwrap_or(0.0).
RECURSIVE FillSlots(_, _)
FillSlots(ring, n) ==
    IF n = 0 THEN [data |-> << >>, ring |-> ring]
    ELSE LET slot == IF TryPop(ring).some THEN TryPop(ring).value ELSE 0
             later == FillSlots(TryPop(ring).rest, n - 1)
         IN  [data |-> <<slot>> \o later.data, ring |-> later.ring]

\* The output device asks for a frame of n slots.  The closure takes no
\* lock and the ring buffer has one consumer, so a frame in which the loop
\* pushes between two slots fills the slots of two frames of the model.
OutputCallback(n) ==
    /\ playback = "running"
    /\ Len(played) + n <= MaxSlots
    /\ played' = played \o FillSlots(playback_ring, n).data
    /\ playback_ring' = FillSlots(playback_ring, n).ring
    /\ UNCHANGED <<sessionVars, handler, audio_sender, playback, pushing,
                   nextSample, stopsSent, cutoff, legacyVars, captureVars,
                   conv>>

\* ------------------------------------------------- playback of main.rs

\* buffer_for_ws.lock().unwrap() of handle_server_event on an audio delta:
\* the reader task waits for the Mutex and takes it.
LegacyLock ==
    /\ audio_buffer_lock = "free"
    /\ audio_buffer_lock' = "reader"
    /\ UNCHANGED <<sessionVars, handler, audio_sender, playback, playbackVars,
                   audio_buffer, captureVars, conv>>

\* buffer.extend(resampled_audio) on a chunk of n samples; the guard is
\* dropped at the end of the block.
LegacyExtend(n) ==
    /\ audio_buffer_lock = "reader"
    /\ AudioBudget(n)
    /\ audio_buffer' = audio_buffer \o Chunk(nextSample, n)
    /\ nextSample' = nextSample + n
    /\ audio_buffer_lock' = "free"
    /\ UNCHANGED <<sessionVars, handler, audio_sender, playback,
                   playback_ring, pushing, played, stopsSent, cutoff,
                   captureVars, conv>>

\* The closure of build_output_stream of initialize_audio_playback on a
\* frame of n slots: audio_buffer.lock().unwrap() waits for the Mutex, then
\* each slot gets buffer.pop_front().unwrap_or(0.0), and the guard is
\* dropped.
LegacyOutputCallback(n) ==
    /\ audio_buffer_lock = "free"
    /\ Len(played) + n <= MaxSlots
    /\ played' = played \o FillSlots(audio_buffer, n).data
    /\ audio_buffer' = FillSlots(audio_buffer, n).ring
    /\ UNCHANGED <<sessionVars, handler, audio_sender, playback,
                   playback_ring, pushing, nextSample, stopsSent, cutoff,
                   audio_buffer_lock, captureVars, conv>>

\* ----------------------------------------------------------------- convert

\* A chunk of digital silence long enough for "as f32" to round its
\* destination indexes: 8_388_610 samples, just under six minutes at the
\* server's rate.
LongLen == 8388610

\* "n as f32" for a usize below 2^25: exact up to 2^24, and rounded to the
\* nearest even number, ties to the one whose half is even, above.
F32OfUsize(n) ==
    IF n <= 16777216 \/ n % 2 = 0 THEN n
    ELSE IF (n + 1) % 4 = 0 THEN n + 1 ELSE n - 1

\* The sample rates of the model: their ratios are powers of two, which f32
\* holds, multiplies by and divides by without rounding.
SampleRates == {24000, 48000}

\* resample_ratio as the fraction RatioNum / RatioDen in lowest terms.
RatioNum(current_sample_rate, target_sample_rate) ==
    IF target_sample_rate >= current_sample_rate
    THEN target_sample_rate \div current_sample_rate ELSE 1

RatioDen(current_sample_rate, target_sample_rate) ==
    IF target_sample_rate >= current_sample_rate
    THEN 1 ELSE current_sample_rate \div target_sample_rate

\* The rate of a low-rate microphone, and a chunk of three and a half
\* seconds at that rate.
LowRate == 11025
MediumLen == 38938

\* resample_ratio from LowRate to the server's rate: 24000.0 / 11025.0 is
\* not an f32, and the division rounds it to RatioMantissa / 2^21, a little
\* above 320 / 147.
RatioMantissa == 4565229

\* Half of the distance between neighbouring f32 values around a number of
\* integer part i, in units of 2^-21.
RECURSIVE HalfUlp(_)
HalfUlp(i) ==
    IF i < 8 THEN 0 ELSE IF i < 16 THEN 1 ELSE 2 * HalfUlp(i \div 2)

\* (len as f32 * resample_ratio) as usize for the ratio of LowRate and
\* len below 2^17: the product len * RatioMantissa / 2^21, held in two
\* parts of 14 bits, is rounded to the nearest f32, which is the next
\* integer when that is at most half a step away, and then truncated.
LowRateLength(len) ==
    LET high == RatioMantissa \div 16384
        low == RatioMantissa % 16384
        hi == len * high + (len * low) \div 16384
        lo == (len * low) % 16384
        whole == hi \div 128
        frac == (hi % 128) * 16384 + lo
    IN  IF frac > 0 /\ 2097152 - frac <= HalfUlp(whole)
        THEN whole + 1 ELSE whole

\* (samples.len() as f32 * resample_ratio) as usize
ResampledLength(len, current_sample_rate, target_sample_rate) ==
    IF current_sample_rate = LowRate /\ target_sample_rate = SERVER_SAMPLE_RATE
    THEN LowRateLength(len)
    ELSE (F32OfUsize(len) * RatioNum(current_sample_rate, target_sample_rate))
            \div RatioDen(current_sample_rate, target_sample_rate)

\* (i as f32 / resample_ratio).floor() as usize
IndexFloor(i, current_sample_rate, target_sample_rate) ==
    (F32OfUsize(i) * RatioDen(current_sample_rate, target_sample_rate))
        \div RatioNum(current_sample_rate, target_sample_rate)

\* (index_floor + 1).min(samples.len() - 1)
IndexCeil(index_floor, len) ==
    IF index_floor + 1 <= len - 1 THEN index_floor + 1 ELSE len - 1

\* samples[index_floor] and samples[index_ceil] panic on an index that is
\* not below samples.len(); index_floor does not decrease with i, so the
\* last destination index decides.
ResamplePanics(len, current_sample_rate, target_sample_rate) ==
    LET resampled_length ==
            ResampledLength(len, current_sample_rate, target_sample_rate)
    IN  /\ resampled_length > 0
        /\ IndexFloor(resampled_length - 1, current_sample_rate,
                      target_sample_rate) > len - 1

\* How resample_and_convert_channels ends on len samples: Err from the
\* validation, a panic of the resampling loop, or Ok.
Outcome(len, current_sample_rate, current_num_channels, target_sample_rate, target_num_channels) ==
    IF ConvertError(current_sample_rate, current_num_channels,
                    target_sample_rate, target_num_channels)
    THEN "Err"
    ELSE IF ResamplePanics(len, current_sample_rate, target_sample_rate)
    THEN "panic"
    ELSE "Ok"

\* (2, 1) => chunks(2).map(|chunk| chunk.iter().sum::<f32>() / 2.0); a
\* result n stands for n / 2 of the unit of samples.
StereoToMono(samples) ==
    [k \in 1..((Len(samples) + 1) \div 2) |->
        IF 2 * k <= Len(samples)
        THEN samples[2 * k - 1] + samples[2 * k]
        ELSE samples[2 * k - 1]]

\* resample_and_convert_channels on the chunks the model holds in full.
ResampleAndConvertChannels(samples, current_sample_rate, current_num_channels, target_sample_rate, target_num_channels) ==
    LET result == Outcome(Len(samples), current_sample_rate,
                          current_num_channels, target_sample_rate,
                          target_num_channels)
        resampled_audio ==
            Resample(samples, current_sample_rate, target_sample_rate)
    IN  [result |-> result,
         samples |->
            IF result # "Ok" THEN << >>
            ELSE IF current_num_channels = 1 /\ target_num_channels = 2
            THEN MonoToStereo(resampled_audio)
            ELSE IF current_num_channels = 2 /\ target_num_channels = 1
            THEN StereoToMono(resampled_audio)
            ELSE resampled_audio]

\* BASE64_STANDARD.encode, character by character: four characters for
\* three bytes, padded.
RECURSIVE Base64EncodeChars(_)
Base64EncodeChars(bytes) ==
    IF bytes = << >> THEN << >>
    ELSE IF Len(bytes) = 1
    THEN <<Base64Alphabet[bytes[1] \div 4 + 1],
           Base64Alphabet[(bytes[1] % 4) * 16 + 1], "=", "=">>
    ELSE IF Len(bytes) = 2
    THEN <<Base64Alphabet[bytes[1] \div 4 + 1],
           Base64Alphabet[(bytes[1] % 4) * 16 + bytes[2] \div 16 + 1],
           Base64Alphabet[(bytes[2] % 16) * 4 + 1], "=">>
    ELSE <<Base64Alphabet[bytes[1] \div 4 + 1],
           Base64Alphabet[(bytes[1] % 4) * 16 + bytes[2] \div 16 + 1],
           Base64Alphabet[(bytes[2] % 16) * 4 + bytes[3] \div 64 + 1],
           Base64Alphabet[(bytes[3] % 64) + 1]>>
            \o Base64EncodeChars(SubSeq(bytes, 4, Len(bytes)))

\* The String of a sequence of characters.
RECURSIVE StringOf(_)
StringOf(chars) ==
    IF chars = << >> THEN "" ELSE Head(chars) \o StringOf(Tail(chars))

\* BASE64_STANDARD.encode
Base64Encode(bytes) == StringOf(Base64EncodeChars(bytes))

\* (sample * i16::MAX as f32) as i16 on a sample n / (scale * I16_MAX): the
\* cast truncates towards zero and saturates.
I16OfSample(n, scale) ==
    LET v == IF n >= 0 THEN n \div scale ELSE -((-n) \div scale)
    IN  IF v > I16_MAX THEN I16_MAX ELSE IF v < -32768 THEN -32768 ELSE v

\* The bytes of v with the high byte first.
ToBeBytes(v) ==
    LET u == IF v < 0 THEN v + 65536 ELSE v IN <<u \div 256, u % 256>>

\* i16::to_le_bytes
ToLeBytes(v) ==
    LET u == IF v < 0 THEN v + 65536 ELSE v IN <<u % 256, u \div 256>>

\* base64_encode_audio
RECURSIVE Pcm16Bytes(_, _)
Pcm16Bytes(samples, scale) ==
    IF samples = << >> THEN << >>
    ELSE ToLeBytes(I16OfSample(Head(samples), scale))
            \o Pcm16Bytes(Tail(samples), scale)

Base64EncodeAudio(samples, scale) == Base64Encode(Pcm16Bytes(samples, scale))

\* convert_audio_to_server: the unwrap() panics on an Err of the
\* validation.  The samples of the chunk stand for n / I16_MAX.
ConvertAudioToServer(samples, sample_rate, channels) ==
    LET converted == ResampleAndConvertChannels(samples, sample_rate, channels,
                            SERVER_SAMPLE_RATE, SERVER_CHANNELS)
        scale == IF channels = 2 THEN 2 * SERVER_SAMPLE_RATE
                 ELSE SERVER_SAMPLE_RATE
    IN  [panics |-> converted.result # "Ok",
         payload |-> IF converted.result # "Ok" THEN ""
                     ELSE Base64EncodeAudio(converted.samples, scale)]

\* The chunks the model holds in full, of samples 1 / I16_MAX and
\* 2 / I16_MAX.
RECURSIVE ChunksOfLen(_)
ChunksOfLen(n) ==
    IF n = 0 THEN {<< >>}
    ELSE {Append(c, v) : c \in ChunksOfLen(n - 1), v \in {1, 2}}

ShortChunks == UNION {ChunksOfLen(n) : n \in 0..MaxLen}

\* The sample rates and channel counts a caller can pass.
RateArgs == SampleRates \cup {0}
ChannelArgs == {0, 1, 2, 6}

\* A call of resample_and_convert_channels on a chunk the model holds.
CallConvert(samples, current_sample_rate, current_num_channels, target_sample_rate, target_num_channels) ==
    /\ conv' = [call |-> "convert",
                len |-> Len(samples),
                current_sample_rate |-> current_sample_rate,
                current_num_channels |-> current_num_channels,
                target_sample_rate |-> target_sample_rate,
                target_num_channels |-> target_num_channels,
                result |-> ResampleAndConvertChannels(samples,
                                current_sample_rate, current_num_channels,
                                target_sample_rate, target_num_channels).result,
                samples |-> ResampleAndConvertChannels(samples,
                                current_sample_rate, current_num_channels,
                                target_sample_rate, target_num_channels).samples]
    /\ UNCHANGED <<sessionVars, handler, audio_sender, playback, playbackVars,
                   legacyVars, captureVars>>

\* A call of resample_and_convert_channels on the long chunk of silence:
\* the model holds how the call ends, and not the samples of an Ok.
CallConvertLong(current_sample_rate, current_num_channels, target_sample_rate, target_num_channels) ==
    /\ conv' = [call |-> "convert_long",
                len |-> LongLen,
                current_sample_rate |-> current_sample_rate,
                current_num_channels |-> current_num_channels,
                target_sample_rate |-> target_sample_rate,
                target_num_channels |-> target_num_channels,
                result |-> Outcome(LongLen, current_sample_rate,
                                   current_num_channels, target_sample_rate,
                                   target_num_channels)]
    /\ UNCHANGED <<sessionVars, handler, audio_sender, playback, playbackVars,
                   legacyVars, captureVars>>

\* The destination indexes of a resampled length the model looks at: the
\* first ones and the last ones, which is all of them for a short chunk.
DestinationIndexes(resampled_length) ==
    LET few == 2 * MaxLen
    IN  IF resampled_length <= 2 * few THEN 0..(resampled_length - 1)
        ELSE (0..(few - 1))
                \cup ((resampled_length - few)..(resampled_length - 1))

\* The iteration of the resampling loop for destination index i, on len
\* samples and valid parameters, up to the two indexes it reads at.
ResampleIndex(len, current_sample_rate, target_sample_rate, i) ==
    /\ conv' = [call |-> "index",
                len |-> len,
                current_sample_rate |-> current_sample_rate,
                target_sample_rate |-> target_sample_rate,
                i |-> i,
                index_floor |-> IndexFloor(i, current_sample_rate,
                                           target_sample_rate),
                index_ceil |-> IndexCeil(IndexFloor(i, current_sample_rate,
                                                    target_sample_rate), len)]
    /\ UNCHANGED <<sessionVars, handler, audio_sender, playback, playbackVars,
                   legacyVars, captureVars>>

\* base64_decode_audio on a text given character by character: the unwrap()
\* panics on a text that is not base64.  A sample n stands for n / I16_MAX.
Base64DecodeAudio(chars) ==
    [panics |-> ~Base64DecodeChars(chars).ok,
     samples |-> SamplesOfBytes(Base64DecodeChars(chars).bytes)]

\* Samples between -1 and 1 in halves of 1 / I16_MAX: both ends, zero, and
\* values on and between the steps of PCM16.
HalfStepSamples == {-65534, -3, -2, -1, 0, 1, 2, 3, 65533, 65534}

RECURSIVE HalfStepChunks(_)
HalfStepChunks(n) ==
    IF n = 0 THEN {<< >>}
    ELSE {Append(c, v) : c \in HalfStepChunks(n - 1), v \in HalfStepSamples}

\* base64_encode_audio on a chunk of samples n / (2 * I16_MAX), and
\* base64_decode_audio on its text.  The two functions keep nothing between
\* calls, and a run makes one.
EncodeDecode(samples) ==
    /\ conv.call = "none"
    /\ conv' = [call |-> "round_trip",
                samples |-> samples,
                bytes |-> Pcm16Bytes(samples, 2),
                decoded |-> Base64DecodeAudio(
                                Base64EncodeChars(Pcm16Bytes(samples, 2)))]
    /\ UNCHANGED <<sessionVars, handler, audio_sender, playback, playbackVars,
                   legacyVars, captureVars>>

\* The lengths and the pairs of rates the model computes a resampled
\* length for.
LengthArgs == {0, 1, 147, MediumLen}
RatePairs == (SampleRates \X SampleRates) \cup {<<LowRate, SERVER_SAMPLE_RATE>>}

\* The statement of resample_and_convert_channels that computes
\* resampled_length, on len samples and valid parameters.
ResampleLength(len, current_sample_rate, target_sample_rate) ==
    /\ conv' = [call |-> "length",
                len |-> len,
                current_sample_rate |-> current_sample_rate,
                target_sample_rate |-> target_sample_rate,
                resampled_length |-> ResampledLength(len, current_sample_rate,
                                                     target_sample_rate)]
    /\ UNCHANGED <<sessionVars, handler, audio_sender, playback, playbackVars,
                   legacyVars, captureVars>>

\* ---------------------------------------------------------------- recording

\* cpal's default input configurations: a microphone, a stereo input and
\* an array of four microphones.
Microphone == [sample_rate |-> 48000, channels |-> 1]
MicArray == [sample_rate |-> 48000, channels |-> 4]

\* CHUNK_SIZE has the value of RING_BUFFER_CAPACITY.
CHUNK_SIZE == RingCapacity

\* initialize_recording_stream on an input device: the recording thread is
\* spawned and the caller gets the receiver.
RecordingStart(device) ==
    /\ recorder = "none"
    /\ recorder' = "running"
    /\ forwarder' = "running"
    /\ input' = device
    /\ UNCHANGED <<sessionVars, handler, audio_sender, playback, playbackVars,
                   legacyVars, recording_ring, buffer, recording, accepted,
                   delivered, forwarded, conv>>

\* An input callback that makes room by dropping the oldest sample.
PushFrameDropOldest(ring, data) ==
    LET all == ring \o data
    IN  [ring |-> IF Len(all) <= RingCapacity THEN all
                  ELSE SubSeq(all, Len(all) - RingCapacity + 1, Len(all)),
         pushed |-> data]

\* The closure of build_input_stream on the samples of one frame:
\* producer.try_push(sample) fails on a full buffer, and the sample is
\* dropped with a warning.
RECURSIVE PushFrame(_, _)
PushFrame(ring, data) ==
    IF data = << >> THEN [ring |-> ring, pushed |-> << >>]
    ELSE IF Len(ring) >= RingCapacity
    THEN PushFrame(ring, Tail(data))
    ELSE LET later == PushFrame(Append(ring, Head(data)), Tail(data))
         IN  [ring |-> later.ring, pushed |-> <<Head(data)>> \o later.pushed]

\* The input device delivers a frame of n samples, numbered in the order of
\* capture.  The closure takes no lock; a frame in which the loop pops
\* between two samples is two frames of the model.
InputCallback(n) ==
    /\ recorder = "running"
    /\ AudioBudget(n)
    /\ recording_ring' = PushFrame(recording_ring, Chunk(delivered + 1, n)).ring
    /\ accepted' = accepted \o PushFrame(recording_ring, Chunk(delivered + 1, n)).pushed
    /\ delivered' = delivered + n
    /\ UNCHANGED <<sessionVars, handler, audio_sender, playback, playbackVars,
                   legacyVars, buffer, recording, input, recorder, forwarder,
                   forwarded, conv>>

\* One iteration of "for _ in 0..CHUNK_SIZE" of the recording loop in which
\* consumer.try_pop() hands out a sample.
DrainPop ==
    /\ recorder = "running"
    /\ Len(buffer) < CHUNK_SIZE
    /\ TryPop(recording_ring).some
    /\ buffer' = Append(buffer, TryPop(recording_ring).value)
    /\ recording_ring' = TryPop(recording_ring).rest
    /\ UNCHANGED <<sessionVars, handler, audio_sender, playback, playbackVars,
                   legacyVars, recording, accepted, delivered, input, recorder,
                   forwarder, forwarded, conv>>

\* The end of the iteration of the recording loop, after try_pop handed out
\* None or CHUNK_SIZE samples were popped: a chunk that is not empty is
\* sent, and the loop ends when the receiver is gone.  buffer.clear() of
\* the next iteration is part of the step.
DrainSend ==
    /\ recorder = "running"
    /\ buffer # << >>
    /\ recording_ring = << >> \/ Len(buffer) = CHUNK_SIZE
    /\ recorder' = IF forwarder = "dead" THEN "stopped" ELSE recorder
    /\ recording' = IF forwarder = "dead" THEN recording
                    ELSE Append(recording, buffer)
    /\ buffer' = << >>
    /\ UNCHANGED <<sessionVars, handler, audio_sender, playback, playbackVars,
                   legacyVars, recording_ring, accepted, delivered, input,
                   forwarder, forwarded, conv>>

\* The holder of the receiver takes a chunk and calls
\* convert_audio_to_server on it with the device's configuration; a panic
\* ends it and drops the receiver.
ForwardChunk ==
    /\ forwarder = "running"
    /\ recording # << >>
    /\ LET converted == ConvertAudioToServer(Head(recording), input.sample_rate,
                                             input.channels)
       IN  IF converted.panics
           THEN /\ forwarder' = "dead"
                /\ recording' = << >>
                /\ forwarded' = forwarded
           ELSE /\ forwarder' = forwarder
                /\ recording' = Tail(recording)
                /\ forwarded' = Append(forwarded, converted.payload)
    /\ UNCHANGED <<sessionVars, handler, audio_sender, playback, playbackVars,
                   legacyVars, recording_ring, buffer, accepted, delivered,
                   input, recorder, conv>>

\* ------------------------------------------------------------------- Spec

\* A call of one of the methods that are one call of send.
SendCall(w) ==
    \/ UpdateSession(w)
    \/ CreateResponse(w)
    \/ \E a \in AudioPayloads : InputAudioBufferAppend(a, w)
    \/ InputAudioBufferCommit(w)

ClientCall ==
    \/ \E open \in {"refused", "ok"}, w \in BOOLEAN : Connect(open, w)
    \/ \E w \in BOOLEAN : Disconnect(w)
    \/ \E w \in BOOLEAN : SendCall(w)
    \/ \E m \in MessageContents, w1 \in BOOLEAN, w2 \in BOOLEAN :
            SendUserMessageContent(m, w1, w2)

HandlerRuns ==
    \/ \E d \in {NoDevice, Stereo} : HandlerStart(d)
    \/ \E tty \in BOOLEAN : HandleEvent(tty)

ReaderRuns ==
    \E c \in Conns, res \in InboundResults : ReaderStep(c, res)

\* The outbound half: every method of the client and the event handler, with
\* servers that send no text.
NextClient ==
    \/ ClientCall
    \/ HandlerRuns

SpecClient == Init /\ [][NextClient]_vars

\* The inbound half: connections come and go, their reader tasks and the
\* event handler run, and the owner calls no other method.
NextInbound ==
    \/ \E open \in {"refused", "ok"}, w \in BOOLEAN : Connect(open, w)
    \/ \E w \in BOOLEAN : Disconnect(w)
    \/ ReaderRuns
    \/ HandlerRuns

SpecInbound == Init /\ [][NextInbound]_vars

\* ------------------------------------------------- the handler on its own

\* The item of a conversation.item.created: an assistant's, without content
\* yet, and a user's, whose audio part has no transcript yet.
AssistantItem(id) ==
    [id |-> id, role |-> "assistant", status |-> "in_progress", content |-> << >>]
UserAudioItem(id) ==
    [id |-> id, role |-> "user", status |-> "in_progress",
     content |-> <<[type |-> "input_audio"]>>]

\* The item of a response that failed: a system item without content.
FailedItem(id) ==
    [id |-> id, role |-> "system", status |-> "failed", content |-> << >>]

TranscriptDelta(item_id, content_index, delta) ==
    [type |-> "response.audio_transcript.delta", item_id |-> item_id,
     content_index |-> content_index, delta |-> delta]

TranscriptDone(type, item_id, content_index, transcript) ==
    [type |-> type, item_id |-> item_id, content_index |-> content_index,
     transcript |-> transcript]

\* What a server sends about the conversation: three items, deltas for a
\* part the first delta creates, for an index beyond it and for a part
\* without transcript, the two final transcripts, a delta without its
\* fields, and a type the client does not handle.
ConversationTexts ==
    { [type |-> "conversation.item.created", item |-> AssistantItem("a")],
      [type |-> "conversation.item.created", item |-> UserAudioItem("b")],
      [type |-> "conversation.item.created", item |-> FailedItem("c")],
      TranscriptDelta("a", 0, "He"),
      TranscriptDelta("a", 0, "llo"),
      TranscriptDelta("a", 1, "He"),
      TranscriptDelta("b", 0, "Hi"),
      TranscriptDone("response.audio_transcript.done", "a", 0, "Hello!"),
      TranscriptDone("conversation.item.input_audio_transcription.completed",
                     "b", 0, "Hi"),
      [type |-> "response.audio_transcript.delta"],
      [type |-> "session.created"] }

\* What a server sends about audio: a delta of two samples, the start and
\* the end of the user's speech, an error, and an item.
AudioTexts ==
    { [type |-> "response.audio.delta", delta |-> "AQACAA=="],
      [type |-> "input_audio_buffer.speech_started"],
      [type |-> "input_audio_buffer.speech_stopped"],
      [type |-> "error"],
      [type |-> "conversation.item.created", item |-> AssistantItem("a")] }

\* A reader task publishes the event of a text that parsed: the send on the
\* channel of start_handling_messages, seen from the receiver.
EventArrives(value) ==
    /\ handler # "dead"
    /\ Len(published) < MaxEvents
    /\ Len(channel) < ChannelCapacity
    /\ channel' = Append(channel, ServerEvent(value))
    /\ published' = Append(published, ServerEvent(value))
    /\ UNCHANGED <<clientVars, task, handler, wire, received, nextConn,
                   nextEventId, last, handlerVars, audioVars>>

\* event_sender.send(event).await of a reader task or of send, on the
\* bounded channel: it completes when the channel has room and waits while
\* the channel is full.
SenderSends(value) ==
    /\ handler # "dead"
    /\ ChannelAccepts(1)
    /\ Len(published) < ChannelCapacity + MaxEvents
    /\ channel' = Append(channel, ServerEvent(value))
    /\ published' = Append(published, ServerEvent(value))
    /\ UNCHANGED <<clientVars, task, handler, wire, received, nextConn,
                   nextEventId, last, handlerVars, audioVars>>

\* Senders that publish more events than the channel holds, and the event
\* handler, which the runtime keeps scheduling.
NextBackPressure ==
    \/ SenderSends([type |-> "session.created"])
    \/ HandlerRuns

SpecBackPressure ==
    Init /\ [][NextBackPressure]_vars /\ WF_vars(HandlerRuns)

\* The event handler fed with the events of a conversation.
NextTranscript ==
    \/ \E value \in ConversationTexts : EventArrives(value)
    \/ HandlerRuns

SpecTranscript == Init /\ [][NextTranscript]_vars

\* The event handler and the start of the playback thread, on any output
\* device, fed with the events about audio.
NextAudio ==
    \/ \E value \in AudioTexts : EventArrives(value)
    \/ \E d \in {NoDevice, Stereo, Surround} : HandlerStart(d)
    \/ \E stream \in BOOLEAN : PlaybackStart(stream)
    \/ \E tty \in BOOLEAN : HandleEvent(tty)

SpecAudio == Init /\ [][NextAudio]_vars

\* The playback thread on a stereo device, fed by the handler with chunks
\* and Stops.
NextPlayback ==
    \/ HandlerStart(Stereo)
    \/ \E stream \in BOOLEAN : PlaybackStart(stream)
    \/ \E n \in ChunkSizes : SendPlay(n)
    \/ SendStop
    \/ PlaybackRecv
    \/ PlaybackPush
    \/ PlaybackStop
    \/ \E n \in FrameSizes : OutputCallback(n)

SpecPlayback == Init /\ [][NextPlayback]_vars

\* The recording thread on any input device, and the holder of its
\* receiver.
NextRecording ==
    \/ \E device \in {Microphone, Stereo, MicArray} : RecordingStart(device)
    \/ \E n \in FrameSizes : InputCallback(n)
    \/ DrainPop
    \/ DrainSend
    \/ ForwardChunk

SpecRecording == Init /\ [][NextRecording]_vars

\* The two ring buffers of audio_utils.rs with their producers and
\* consumers.
NextRings ==
    \/ HandlerStart(Stereo)
    \/ PlaybackStart(TRUE)
    \/ \E n \in ChunkSizes : SendPlay(n)
    \/ PlaybackRecv
    \/ PlaybackPush
    \/ \E n \in FrameSizes : OutputCallback(n)
    \/ RecordingStart(Microphone)
    \/ \E n \in FrameSizes : InputCallback(n)
    \/ DrainPop
    \/ DrainSend

SpecRings == Init /\ [][NextRings]_vars

\* The playback of main.rs: the reader task and the output callback around
\* the Mutex.
NextLegacy ==
    \/ LegacyLock
    \/ \E n \in ChunkSizes : LegacyExtend(n)
    \/ \E n \in FrameSizes : LegacyOutputCallback(n)

SpecLegacy == Init /\ [][NextLegacy]_vars

\* resample_and_convert_channels called on any chunk with any parameters.
NextConvert ==
    \/ \E samples \in ShortChunks, csr \in RateArgs, cc \in ChannelArgs,
          tsr \in RateArgs, tc \in ChannelArgs :
            CallConvert(samples, csr, cc, tsr, tc)
    \/ \E csr \in RateArgs, cc \in ChannelArgs,
          tsr \in RateArgs, tc \in ChannelArgs :
            CallConvertLong(csr, cc, tsr, tc)
    \/ \E len \in (0..MaxLen) \cup {LongLen}, csr \in SampleRates,
          tsr \in SampleRates :
            \E i \in DestinationIndexes(ResampledLength(len, csr, tsr)) :
                ResampleIndex(len, csr, tsr, i)
    \/ \E len \in LengthArgs, rates \in RatePairs :
            ResampleLength(len, rates[1], rates[2])

SpecConvert == Init /\ [][NextConvert]_vars

\* base64_encode_audio followed by base64_decode_audio on chunks of the
\* caller.
NextCodec ==
    \E n \in 0..MaxLen : \E samples \in HalfStepChunks(n) :
        EncodeDecode(samples)

SpecCodec == Init /\ [][NextCodec]_vars

\* The whole program: the client's owner, the reader tasks, the handler, the
\* audio threads and the device callbacks.
Next ==
    \/ ClientCall
    \/ ReaderRuns
    \/ HandlerRuns
    \/ NextPlayback
    \/ NextRecording
    \/ NextLegacy
    \/ NextConvert
    \/ NextCodec
    \/ NextBackPressure

Spec == Init /\ [][Next]_vars

\* ----------------------------------------------------------------- claims

SendOps ==
    {"update_session", "create_response", "input_audio_buffer_append",
     "input_audio_buffer_commit", "send_user_message_content"}

\* The envelopes written on the send lanes, in the order of the wire.
WireTexts == SelectSeq(wire, LAMBDA m : m.kind = "Text")

\* The connections on which a close message was written.
Closed == {wire[i].conn : i \in {k \in DOMAIN wire : wire[k].kind = "Close"}}

\* C1: a connect called while the client is connected returns the "already
\* connected" error and changes nothing: the client stays connected on the
\* same lanes, no transport is opened, nothing is written or published and
\* no reader task is started.
C1_ConnectWhileConnected ==
    [][ (is_connected /\ \E open \in {"refused", "ok"}, w \in BOOLEAN : Connect(open, w))
        => /\ last'.op = "connect"
           /\ last'.result = "already_connected"
           /\ last'.attempts = 0
           /\ is_connected'
           /\ UNCHANGED <<ws_read, ws_write, session_config, task, handler,
                          channel, wire, published, received, nextConn,
                          nextEventId>> ]_vars

\* C1's case: a connect has just been refused on a connected client.
C1_Witness ==
    /\ is_connected
    /\ last.op = "connect"
    /\ last.result = "already_connected"

\* Any of the methods that call send, with any input.
AnySendCall ==
    \/ \E w \in BOOLEAN : SendCall(w)
    \/ \E m \in MessageContents, w1 \in BOOLEAN, w2 \in BOOLEAN :
            SendUserMessageContent(m, w1, w2)

\* C2: while the client is not connected every method that sends returns the
\* "not connected" error without attempting a write, and neither the wire
\* nor the event channel nor the client changes.
C2_SendWhileNotConnected ==
    [][ (~is_connected /\ AnySendCall)
        => /\ last'.op \in SendOps
           /\ last'.result = "not_connected"
           /\ last'.attempts = 0
           /\ UNCHANGED <<is_connected, ws_read, ws_write, session_config,
                          task, handler, channel, wire, published, received,
                          nextConn, nextEventId>> ]_vars

\* C2's case: a send has just been refused after a successful disconnect.
C2_Witness ==
    /\ ~is_connected
    /\ Closed # {}
    /\ last.op \in SendOps
    /\ last.result = "not_connected"

\* C5: a disconnect called while the client is not connected returns the "not
\* connected" error, writes no close message and changes neither the state
\* nor the lanes.
C5_DisconnectWhileNotConnected ==
    [][ (~is_connected /\ \E w \in BOOLEAN : Disconnect(w))
        => /\ last'.op = "disconnect"
           /\ last'.result = "not_connected"
           /\ last'.attempts = 0
           /\ UNCHANGED <<is_connected, ws_read, ws_write, session_config,
                          task, handler, channel, wire, published, received,
                          nextConn, nextEventId>> ]_vars

\* C5's case: a disconnect has just been refused on a client that is not
\* connected.
C5_Witness ==
    /\ ~is_connected
    /\ last.op = "disconnect"
    /\ last.result = "not_connected"

\* C3: the client is connected only if the session.update carrying its
\* SessionConfig has been written on the lane it holds, and a connect that
\* returned an error of its own has not left the client connected.
C3_ConnectedOnlyAfterSessionUpdate ==
    /\ is_connected =>
          \E i \in DOMAIN wire :
              /\ wire[i].conn = ws_write
              /\ wire[i].kind = "Text"
              /\ wire[i].env.type = "session.update"
              /\ wire[i].env.session = session_config
    /\ (last.op = "connect" /\ last.result \notin {"ok", "already_connected"})
          => ~is_connected

\* The connection the client holds has had its session.update written.
SessionConfigured ==
    \E i \in DOMAIN wire :
        /\ wire[i].conn = ws_write
        /\ wire[i].kind = "Text"
        /\ wire[i].env.type = "session.update"

\* C4: a disconnect of a connected client whose close message the transport
\* accepts returns Ok, has written the close message on the send lane,
\* leaves the client disconnected, and leaves neither lane of the connection
\* held by anyone.
C4_DisconnectReleasesLanes ==
    [][ (is_connected /\ SessionConfigured /\ Disconnect(TRUE))
        => /\ last'.result = "ok"
           /\ wire' = WriteClose(wire, ws_write)
           /\ ~is_connected'
           /\ ws_write' = None
           /\ ws_read' # ws_write
           /\ task'[ws_write] # "running" ]_vars

\* The single-send methods called with a transport that refuses the write.
C8_SingleSendFails ==
    (ws_write # None /\ SendCall(FALSE))
    => /\ last'.op \in SendOps
       /\ last'.result = "write_failed"
       /\ last'.attempts = 1
       /\ UNCHANGED <<is_connected, ws_read, ws_write, session_config, task,
                      handler, channel, wire, published, received, nextConn,
                      nextEventId>>

\* send_user_message_content with a transport that refuses its first write:
\* create_response is not called.
C8_FirstOfTwoFails ==
    \A m \in MessageContents, w2 \in BOOLEAN :
        (ws_write # None /\ SendUserMessageContent(m, FALSE, w2))
        => /\ last'.result = "write_failed"
           /\ last'.attempts = 1
           /\ UNCHANGED <<is_connected, ws_read, ws_write, session_config,
                          task, handler, channel, wire, published, received,
                          nextConn, nextEventId>>

\* send_user_message_content with a transport that takes the item and refuses
\* the response.create: only the item is on the wire and in the channel.
C8_SecondOfTwoFails ==
    \A m \in MessageContents :
        (ws_write # None /\ handler # "dead"
            /\ SendUserMessageContent(m, TRUE, FALSE))
        => /\ last'.result = "write_failed"
           /\ last'.attempts = 2
           /\ Len(wire') = Len(wire) + 1
           /\ wire'[Len(wire')].env.type = "conversation.item.create"
           /\ Len(published') = Len(published) + 1
           /\ published'[Len(published')].event_type = "conversation.item.create"
           /\ UNCHANGED <<is_connected, ws_read, ws_write, task>>

\* connect with a transport that refuses the session.update.
C8_SessionUpdateFails ==
    (~is_connected /\ Connect("ok", FALSE))
    => /\ last'.result = "write_failed"
       /\ last'.attempts = 1
       /\ UNCHANGED <<channel, wire, published, nextEventId>>

\* C8: when the transport refuses the write of a send, the method returns the
\* error after that one attempt, publishes no event for the envelope, and
\* leaves the wire and the connection state as they were.
C8_WriteFailure ==
    [][ /\ C8_SingleSendFails
        /\ C8_FirstOfTwoFails
        /\ C8_SecondOfTwoFails
        /\ C8_SessionUpdateFails ]_vars

\* C8's case: a send on a connected client has just failed in the transport,
\* after an earlier envelope went through.
C8_Witness ==
    /\ is_connected
    /\ last.op \in SendOps
    /\ last.result = "write_failed"
    /\ published # << >>

\* The types of the envelopes a method sends, in the order of its calls of
\* send.
OpTypes(op) ==
    CASE op = "connect" -> <<"session.update">>
      [] op = "update_session" -> <<"session.update">>
      [] op = "create_response" -> <<"response.create">>
      [] op = "input_audio_buffer_append" -> <<"input_audio_buffer.append">>
      [] op = "input_audio_buffer_commit" -> <<"input_audio_buffer.commit">>
      [] op = "send_user_message_content" ->
            <<"conversation.item.create", "response.create">>
      [] OTHER -> << >>

\* What a step added at the end of the wire.
Written == SubSeq(wire', Len(wire) + 1, Len(wire'))

\* A step that changes the wire keeps what was on it and adds, on the lane the
\* client holds, the envelopes of the method called, in the order of its
\* calls of send and numbered in the order they were built: all of them when
\* the method returns Ok, the first ones otherwise.  A disconnect adds the
\* close message.
C6_WireGrowsInCallOrder ==
    wire' # wire =>
        /\ Len(wire') > Len(wire)
        /\ SubSeq(wire', 1, Len(wire)) = wire
        /\ IF last'.op = "disconnect"
           THEN Written = <<[conn |-> ws_write, kind |-> "Close", env |-> NoData]>>
           ELSE /\ Len(Written) <= Len(OpTypes(last'.op))
                /\ last'.result = "ok" => Len(Written) = Len(OpTypes(last'.op))
                /\ \A k \in DOMAIN Written :
                      /\ Written[k].kind = "Text"
                      /\ Written[k].conn = ws_write'
                      /\ Written[k].env.type = OpTypes(last'.op)[k]
                      /\ Written[k].env.event_id = nextEventId + k - 1

\* The k-th envelope send built is the k-th text on the wire.
C6_WireNumbered ==
    \A k \in DOMAIN WireTexts : WireTexts[k].env.event_id = k

\* The first text a connection carries after a connect that returned Ok is
\* the session.update with the client's SessionConfig.
C6_SessionUpdateFirst ==
    (last.op = "connect" /\ last.result = "ok") =>
        LET mine == SelectSeq(wire, LAMBDA m : m.conn = ws_write)
        IN  /\ mine # << >>
            /\ mine[1].kind = "Text"
            /\ mine[1].env.type = "session.update"
            /\ mine[1].env.session = session_config

\* C6: the texts reach the transport in the order in which send was called:
\* every method appends its envelopes to the wire in the order of its calls,
\* nothing already written moves, and a connection opened by a successful
\* connect carries session.update first.
C6_WireInCallOrder ==
    /\ [][C6_WireGrowsInCallOrder]_vars
    /\ [](C6_WireNumbered /\ C6_SessionUpdateFirst)

\* C6's case: after connect, send_user_message_content has put its two
\* envelopes on the wire behind the session.update.
C6_Witness ==
    /\ last.op = "send_user_message_content"
    /\ last.result = "ok"
    /\ Len(WireTexts) = 3
    /\ WireTexts[1].env.type = "session.update"
    /\ WireTexts[2].env.type = "conversation.item.create"
    /\ WireTexts[3].env.type = "response.create"

\* The events published with source = client, in the order of publication.
ClientEvents == SelectSeq(published, LAMBDA e : e.source = "client")

\* C7: the events published with source = client are, one for one and in the
\* same order, the envelopes written on the wire, each with the type and the
\* data (event_id included) of its envelope; a send that returned Ok has
\* published the event of every envelope it wrote.
C7_LocalEcho ==
    /\ Len(ClientEvents) <= Len(WireTexts)
    /\ \A k \in DOMAIN ClientEvents :
          /\ ClientEvents[k].data = WireTexts[k].env
          /\ ClientEvents[k].event_type = WireTexts[k].env.type
    /\ handler # "dead" => Len(ClientEvents) = Len(WireTexts)
    /\ (last.op \in SendOps \cup {"connect"} /\ last.result = "ok")
          => Len(ClientEvents) = Len(WireTexts)

\* C7's case: two sends have succeeded, one of them with data merged into
\* its envelope.
C7_Witness ==
    /\ last.op = "input_audio_buffer_append"
    /\ last.result = "ok"
    /\ Len(ClientEvents) >= 2
    /\ "audio" \in DOMAIN ClientEvents[Len(ClientEvents)].data

\* C9: when the reader task of the connection the client holds, session
\* configured, ends on a read error or at the end of the stream, that very step publishes an event or
\* leaves the client disconnected.
C9_ReaderEndReported ==
    [][ \A c \in Conns :
          (/\ is_connected
           /\ ws_write = c
           /\ SessionConfigured
           /\ task[c] = "running"
           /\ task'[c] \in {"ended_error", "ended_eof"})
          => (published' # published \/ ~is_connected') ]_vars

\* The events of the texts received that parse, in the order received.
ParsedEvents ==
    LET good == SelectSeq(received, LAMBDA m : m.text.json)
    IN  [k \in DOMAIN good |-> ServerEvent(good[k].text.value)]

\* The events published with source = server, in the order of publication.
ServerEvents == SelectSeq(published, LAMBDA e : e.source = "server")

\* A reader step on a text: one that is not JSON changes nothing but the
\* record of what was received; one that is JSON is published while the
\* handler holds the channel, and the task goes on.
C10_TextStep ==
    \A c \in Conns, t \in InboundTexts :
        ReaderStep(c, [kind |-> "Text", text |-> t]) =>
            IF ~t.json
            THEN UNCHANGED <<is_connected, ws_read, ws_write, session_config,
                             task, handler, channel, wire, published,
                             nextConn, nextEventId, last>>
            ELSE handler # "dead" =>
                    /\ published' = Append(published, ServerEvent(t.value))
                    /\ channel' = Append(channel, ServerEvent(t.value))
                    /\ task' = task

\* C10: an inbound text that is not JSON is dropped: no event is published
\* for it, the reader task and the connection state stay as they are, and
\* the texts that parse, before and after it, are all published in order
\* while the event handler lives.
C10_BadJsonDropped ==
    /\ [][C10_TextStep]_vars
    /\ [](handler # "dead" => ServerEvents = ParsedEvents)

\* C10's case: a connection delivered a text that is not JSON and then one
\* that parses; the second was published and the task still runs.
C10_Witness ==
    \E i, j \in DOMAIN received :
        /\ i < j
        /\ received[i].conn = received[j].conn
        /\ ~received[i].text.json
        /\ received[j].text.json
        /\ task[received[j].conn] = "running"
        /\ is_connected
        /\ ws_write = received[j].conn
        /\ ServerEvents # << >>
        /\ ServerEvents[Len(ServerEvents)] = ServerEvent(received[j].text.value)

\* The event the handler's next iteration takes.
NextEvent == Head(channel)

\* C11: a server event of a handled type that lacks a field its handler
\* reads is discarded: the iteration that takes it leaves the handler
\* running, the conversation model and the playback channel as they were,
\* and the later events in the channel.
C11_MalformedDiscarded ==
    [][ (/\ channel # << >>
         /\ NextEvent.source = "server"
         /\ HandlerPanics(NextEvent)
         /\ HandleEvent(TRUE))
        => /\ handler' = "running"
           /\ channel' = Tail(channel)
           /\ UNCHANGED <<conversation_tracker, audio_sender>> ]_vars

\* C12: the server events are published and folded in the order their texts
\* were received: the published server events are the events of the texts
\* that parsed, in order; the channel holds the newest published events,
\* oldest first; and an iteration of the handler takes the oldest and folds
\* it into the conversation model.
C12_InboundInOrder ==
    /\ [](handler # "dead" =>
            /\ ServerEvents = ParsedEvents
            /\ \A k \in DOMAIN ServerEvents : ServerEvents[k].source = "server"
            /\ Len(channel) <= Len(published)
            /\ channel = SubSeq(published, Len(published) - Len(channel) + 1,
                                Len(published)))
    /\ [][ (handler' = "running" /\ Len(channel') < Len(channel))
           => /\ channel' = Tail(channel)
              /\ conversation_tracker' =
                    TranscriptDisplay(conversation_tracker, NextEvent) ]_vars

\* C12's case: a connection delivered two texts that parse, both were
\* published behind the session.update and the handler has taken all three.
C12_Witness ==
    /\ handler = "running"
    /\ channel = << >>
    /\ Len(received) = 2
    /\ received[1].text.json
    /\ received[2].text.json
    /\ received[1] # received[2]
    /\ ServerEvents = <<ServerEvent(received[1].text.value),
                        ServerEvent(received[2].text.value)>>

\* C13: the ids in the order list are the keys of the item map.
C13_OrderAndMapAgree ==
    {conversation_tracker.item_order[i] :
        i \in DOMAIN conversation_tracker.item_order}
      = DOMAIN conversation_tracker.item_map

\* C13's case: two items were created and a transcript was folded into one.
C13_Witness ==
    /\ conversation_tracker.item_order = <<"a", "b">>
    /\ conversation_tracker.item_map["a"].content # << >>
    /\ conversation_tracker.item_map["b"].status = "completed"

\* C14: the order list only grows at its end: every step keeps the list as a
\* prefix of the new one, and the iteration that folds an item.created
\* appends the item's id.
C14_OrderAppendOnly ==
    [][ /\ Len(conversation_tracker.item_order)
            <= Len(conversation_tracker'.item_order)
        /\ SubSeq(conversation_tracker'.item_order, 1,
                  Len(conversation_tracker.item_order))
            = conversation_tracker.item_order
        /\ (/\ channel # << >>
            /\ NextEvent.event_type = "conversation.item.created"
            /\ ~HandlerPanics(NextEvent)
            /\ ~ItemPanics(NextEvent.data)
            /\ HandleEvent(TRUE))
           => conversation_tracker'.item_order =
                Append(conversation_tracker.item_order,
                       NextEvent.data.item.id) ]_vars

\* C14's case: b was created before a, and a transcript event came after.
C14_Witness ==
    /\ conversation_tracker.item_order = <<"b", "a">>
    /\ conversation_tracker.item_map["b"].status = "completed"

\* The types of the two events that carry a final transcript.
DoneTypes ==
    {"response.audio_transcript.done",
     "conversation.item.input_audio_transcription.completed"}

\* The event next in the channel addresses, with item_id and content_index,
\* a content part the conversation model holds.
AddressesPart(event) ==
    /\ ~HandlerPanics(event)
    /\ event.data.item_id \in DOMAIN conversation_tracker.item_map
    /\ event.data.content_index
          < Len(conversation_tracker.item_map[event.data.item_id].content)

\* C15: the iteration that folds a final transcript T for a content part the
\* model holds leaves exactly T as that part's transcript and completed as
\* the item's status, whatever the part's transcript was.
C15_DoneOverwrites ==
    [][ (/\ channel # << >>
         /\ NextEvent.event_type \in DoneTypes
         /\ AddressesPart(NextEvent)
         /\ HandleEvent(TRUE))
        => LET item == conversation_tracker'.item_map[NextEvent.data.item_id]
           IN  /\ handler' = "running"
               /\ item.content[NextEvent.data.content_index + 1].transcript
                     = SomeString(NextEvent.data.transcript)
               /\ item.status = "completed" ]_vars

\* C15's case: created(a), delta He, delta llo, done Hello! have been folded.
C15_Witness ==
    /\ handler = "running"
    /\ channel = << >>
    /\ Len(published) = 4
    /\ published[1].data =
          [type |-> "conversation.item.created", item |-> AssistantItem("a")]
    /\ published[2].data = TranscriptDelta("a", 0, "He")
    /\ published[3].data = TranscriptDelta("a", 0, "llo")
    /\ published[4].event_type = "response.audio_transcript.done"
    /\ conversation_tracker.item_map["a"].content[1].transcript
          = SomeString("Hello!")
    /\ conversation_tracker.item_map["a"].status = "completed"

\* C16: the iteration that folds a transcript delta for a content part the
\* model holds appends the delta to the part's transcript, whether the part
\* had a transcript or none, and leaves the rest of the model as it was.
C16_DeltaAppends ==
    [][ (/\ channel # << >>
         /\ NextEvent.event_type = "response.audio_transcript.delta"
         /\ AddressesPart(NextEvent)
         /\ HandleEvent(TRUE))
        => LET id == NextEvent.data.item_id
               k == NextEvent.data.content_index + 1
               old == conversation_tracker.item_map[id].content[k].transcript
           IN  /\ handler' = "running"
               /\ conversation_tracker' =
                    [conversation_tracker EXCEPT
                        !.item_map[id].content[k].transcript =
                            SomeString((IF old = NoString THEN "" ELSE old[1])
                                       \o NextEvent.data.delta)] ]_vars

\* The deltas of a sequence of events, concatenated.
RECURSIVE ConcatDeltas(_)
ConcatDeltas(events) ==
    IF events = << >> THEN ""
    ELSE Head(events).data.delta \o ConcatDeltas(Tail(events))

\* The server has sent the creation of an item without content and then only
\* transcript deltas for one content index of that item, at least one, and
\* the handler has folded them all.
OnlyDeltasFor(id, index) ==
    /\ handler = "running"
    /\ channel = << >>
    /\ Len(published) >= 2
    /\ published[1].data =
          [type |-> "conversation.item.created", item |-> AssistantItem(id)]
    /\ \A k \in 2..Len(published) :
          /\ published[k].event_type = "response.audio_transcript.delta"
          /\ ~HandlerPanics(published[k])
          /\ published[k].data.item_id = id
          /\ published[k].data.content_index = index

\* C17: after the creation of an item and deltas d1..dn for one content
\* index of it, the item has one content part, of type text, whose
\* transcript is d1..dn concatenated, also when the index is one the item
\* did not have at the first delta.
C17_DeltasAccumulate ==
    \A id \in {"a", "b"}, index \in 0..1 :
        OnlyDeltasFor(id, index) =>
            LET content == conversation_tracker.item_map[id].content
            IN  /\ Len(content) = 1
                /\ content[1].content_type = "text"
                /\ content[1].transcript
                      = SomeString(ConcatDeltas(Tail(published)))

\* The event types one of the two matches of the handler has an arm for.
HandledTypes ==
    TranscriptTypes \cup
        {"response.audio.delta", "input_audio_buffer.speech_started", "error"}

\* C18: the iteration that takes an event of a type the handler has no arm
\* for, whether stdout accepts writes or not, leaves the handler running,
\* the conversation model and the playback channel as they were, and the
\* later events in the channel.
C18_UnknownTypeIgnored ==
    [][ (/\ channel # << >>
         /\ NextEvent.event_type \notin HandledTypes
         /\ \E tty \in BOOLEAN : HandleEvent(tty))
        => /\ handler' = "running"
           /\ channel' = Tail(channel)
           /\ UNCHANGED <<conversation_tracker, audio_sender>> ]_vars

\* C18's case: the handler has taken a speech_stopped while the model held an
\* item and the playback channel a command.
C18_Witness ==
    /\ handler = "running"
    /\ channel = << >>
    /\ published # << >>
    /\ published[Len(published)].event_type = "input_audio_buffer.speech_stopped"
    /\ conversation_tracker.item_order # << >>
    /\ audio_sender # << >>

\* C19: the iteration that takes a speech_started while the playback thread
\* holds the receiver leaves the handler running and the conversation model
\* as it was, and puts one Stop at the end of the playback channel, behind
\* every command sent before.
C19_SpeechStartedStops ==
    [][ (/\ channel # << >>
         /\ NextEvent.event_type = "input_audio_buffer.speech_started"
         /\ playback # "dead"
         /\ \E tty \in BOOLEAN : HandleEvent(tty))
        => /\ handler' = "running"
           /\ channel' = Tail(channel)
           /\ UNCHANGED conversation_tracker
           /\ audio_sender' = Append(audio_sender, Stop) ]_vars

\* C19's case: a Stop behind the Play of an earlier audio delta, with an item
\* in the model.
C19_Witness ==
    /\ handler = "running"
    /\ Len(audio_sender) = 2
    /\ audio_sender[1].cmd = "Play"
    /\ audio_sender[2] = Stop
    /\ conversation_tracker.item_order # << >>

\* The two samples 1/32767 and 2/32767 of the payload "AQACAA==" at 48 kHz
\* stereo, in units of 1 / (32767 * 48000): each sample and the
\* interpolation after it, each on both channels.
TwoSamplesInStereo ==
    <<48000, 48000, 72000, 72000, 96000, 96000, 96000, 96000>>

\* C20: the iteration that takes a response.audio.delta with a base64
\* payload, while the playback thread holds the receiver, leaves the handler
\* running and the conversation model as it was, and puts one Play at the
\* end of the playback channel, which carries the payload's samples.
C20_AudioDeltaPlays ==
    [][ (/\ channel # << >>
         /\ NextEvent.event_type = "response.audio.delta"
         /\ "delta" \in DOMAIN NextEvent.data
         /\ Base64Decode(NextEvent.data.delta).ok
         /\ playback # "dead"
         /\ \E tty \in BOOLEAN : HandleEvent(tty))
        => /\ handler' = "running"
           /\ channel' = Tail(channel)
           /\ UNCHANGED conversation_tracker
           /\ Len(audio_sender') = Len(audio_sender) + 1
           /\ SubSeq(audio_sender', 1, Len(audio_sender)) = audio_sender
           /\ audio_sender'[Len(audio_sender')].cmd = "Play"
           /\ (NextEvent.data.delta = "AQACAA==" /\ output = Stereo)
                => audio_sender'[Len(audio_sender')].samples
                      = TwoSamplesInStereo ]_vars

\* The slots the step filled.
NewSlots == SubSeq(played', Len(played) + 1, Len(played'))

\* C21: a Stop the playback loop processes leaves the ring buffer empty,
\* whatever it held before, an empty buffer included (a second Stop right
\* after the first), and it is no error: the playback thread and the
\* handler keep running.
C21_StopClears ==
    [][ PlaybackStop
        => /\ playback_ring' = << >>
           /\ playback' = "running"
           /\ handler' = handler ]_vars

\* C21's case: two Stops were processed after two samples were sent, and no
\* sample was played or is left anywhere.
C21_Witness ==
    /\ stopsSent = 2
    /\ nextSample = 3
    /\ cutoff = 2
    /\ audio_sender = << >>
    /\ pushing = << >>
    /\ playback_ring = << >>
    /\ played = << >>

\* C22: the Stop leaves nothing of the earlier Play commands in the loop or
\* in the ring buffer, an output callback that finds the buffer empty
\* fills its frame with silence, and no callback plays a sample the loop
\* received before the last Stop it processed.
C22_BargeInCutoff ==
    [][ /\ PlaybackStop => (playback_ring' = << >> /\ pushing' = << >>)
        /\ \A n \in FrameSizes :
              OutputCallback(n)
              => /\ playback_ring = << >>
                    => \A j \in 1..n : NewSlots[j] = 0
                 /\ \A j \in 1..n : NewSlots[j] = 0 \/ NewSlots[j] > cutoff
      ]_vars

\* C22's case: sample 1 was played, a Stop discarded sample 2, and the next
\* callback played silence.
C22_Witness ==
    /\ played = <<1, 0>>
    /\ stopsSent = 1
    /\ cutoff = 2
    /\ nextSample = 3
    /\ audio_sender = << >>

\* C23: the playback loop goes past a sample of a Play chunk only by
\* pushing it into the ring buffer: no sample is dropped.
C23_NoSampleDropped ==
    [][ (pushing # << >> /\ pushing' = Tail(pushing))
        => playback_ring' = Append(playback_ring, Head(pushing)) ]_vars

\* The slots of the output callbacks that are not silence.
NonSilence == SelectSeq(played, LAMBDA v : v # 0)

\* C24: the samples the output callbacks delivered, silence left out, are
\* samples of the Play commands sent so far, in the order they were sent
\* and each at most once.
C24_PlayedInOrder ==
    /\ \A i \in DOMAIN NonSilence : NonSilence[i] \in 1..(nextSample - 1)
    /\ \A i, j \in DOMAIN NonSilence : i < j => NonSilence[i] < NonSilence[j]

\* C24's case: the samples of two Play commands were played.
C24_Witness == played = <<1, 2, 3>>

\* s is the beginning of t.
IsPrefix(s, t) == Len(s) <= Len(t) /\ SubSeq(t, 1, Len(s)) = s

\* C25: neither ring buffer ever holds more samples than it has slots, a
\* push keeps what the buffer holds, in place, and a push on a full buffer
\* leaves the buffer as it is while its caller goes on: the playback loop
\* to its next sample, the input callback to its end.
C25_RingWithinCapacity ==
    [][ /\ Len(playback_ring') <= RingCapacity
        /\ Len(recording_ring') <= RingCapacity
        /\ PlaybackPush
           => /\ IsPrefix(playback_ring, playback_ring')
              /\ Len(playback_ring) = RingCapacity
                 => /\ playback_ring' = playback_ring
                    /\ pushing' = Tail(pushing)
        /\ \A n \in FrameSizes :
              InputCallback(n)
              => /\ IsPrefix(recording_ring, recording_ring')
                 /\ delivered' = delivered + n
                 /\ Len(recording_ring) = RingCapacity
                    => recording_ring' = recording_ring
      ]_vars

\* C25's case: both buffers are full and each has rejected a push.
C25_Witness ==
    /\ Len(playback_ring) = RingCapacity
    /\ Len(recording_ring) = RingCapacity
    /\ pushing = << >>
    /\ audio_sender = << >>
    /\ played = << >>
    /\ nextSample - 1 > RingCapacity
    /\ Len(accepted) < delivered

\* The samples of a sequence of chunks.
RECURSIVE Flatten(_)
Flatten(chunks) ==
    IF chunks = << >> THEN << >> ELSE Head(chunks) \o Flatten(Tail(chunks))

\* C27: an input callback that finds the ring buffer full leaves it as it
\* is, accepts nothing and returns; and the samples of the chunks the loop
\* has sent, then those of the chunk it is filling, then those in the ring
\* buffer are the samples the callbacks pushed, in the order of capture.
C27_DrainedAreAccepted ==
    [][ /\ Flatten(recording') \o buffer' \o recording_ring' = accepted'
        /\ \A i, j \in DOMAIN accepted' :
              i < j => accepted'[i] < accepted'[j]
        /\ \A n \in FrameSizes :
              (InputCallback(n) /\ Len(recording_ring) = RingCapacity)
              => /\ recording_ring' = recording_ring
                 /\ accepted' = accepted
                 /\ delivered' = delivered + n
      ]_vars

\* C27's case: sample 3 was dropped by a full buffer, and the chunks sent
\* hold the samples accepted before and after it.
C27_Witness ==
    /\ accepted = <<1, 2, 4>>
    /\ delivered = 4
    /\ Flatten(recording) = <<1, 2, 4>>

\* C28: whatever chunk the recording loop sends, the holder of the receiver
\* and the recording loop keep running.
C28_BadChunkContained == forwarder # "dead" /\ recorder # "stopped"

\* C26: whenever the output device asks for a frame, the callback fills it
\* without waiting for anything.
C26_CallbackNeverWaits ==
    \A n \in FrameSizes :
        Len(played) + n <= MaxSlots => ENABLED LegacyOutputCallback(n)

\* C29: a call of convert ends in a validation error, with no samples,
\* exactly when a channel count is neither 1 nor 2 or a sample rate is 0,
\* and in a sequence of samples on every other input.
C29_ValidationExactly ==
    conv.call \in {"convert", "convert_long"}
    => LET invalid == \/ conv.current_num_channels \notin {1, 2}
                      \/ conv.target_num_channels \notin {1, 2}
                      \/ conv.current_sample_rate = 0
                      \/ conv.target_sample_rate = 0
       IN  /\ conv.result = "Err" <=> invalid
           /\ (conv.result = "Err" /\ conv.call = "convert")
              => conv.samples = << >>
           /\ ~invalid => conv.result = "Ok"

\* C30: on valid parameters the resampling loop reads inside the source at
\* every destination index: the floor index and the ceiling index are
\* between 0 and len - 1, and the ceiling index is the floor index plus
\* one, or the last index of the source when that is beyond it.
C30_IndexesInsideSource ==
    conv.call = "index"
    => /\ conv.index_floor \in 0..(conv.len - 1)
       /\ conv.index_ceil \in 0..(conv.len - 1)
       /\ conv.index_ceil = IF conv.index_floor + 1 > conv.len - 1
                            THEN conv.len - 1 ELSE conv.index_floor + 1

\* C31: resampling N samples from srcRate to dstRate gives
\* floor(N * dstRate / srcRate) samples; mono to stereo then doubles the
\* count, stereo to mono halves it, rounding up, and equal channel counts
\* keep it.
C31_LengthOfConvert ==
    /\ conv.call = "length"
       => conv.resampled_length
            = (conv.len * conv.target_sample_rate)
                \div conv.current_sample_rate
    /\ (conv.call = "convert" /\ conv.result = "Ok")
       => LET resampled == (conv.len * conv.target_sample_rate)
                                \div conv.current_sample_rate
          IN  Len(conv.samples)
                = IF conv.current_num_channels = 1
                     /\ conv.target_num_channels = 2
                  THEN 2 * resampled
                  ELSE IF conv.current_num_channels = 2
                          /\ conv.target_num_channels = 1
                  THEN (resampled + 1) \div 2
                  ELSE resampled

\* C32: encoding samples between -1 and 1 to PCM16 and base64 and decoding
\* the text gives as many samples, each within 1 / 32767 of the sample at
\* its position.
C32_RoundTrip ==
    conv.call = "round_trip"
    => /\ ~conv.decoded.panics
       /\ Len(conv.decoded.samples) = Len(conv.samples)
       /\ \A k \in 1..Len(conv.samples) :
            /\ 2 * conv.decoded.samples[k] - conv.samples[k] <= 2
            /\ conv.samples[k] - 2 * conv.decoded.samples[k] <= 2

\* A chunk of a negative sample between two steps and the highest sample
\* has gone through the round trip.
C32_Witness ==
    /\ conv.call = "round_trip"
    /\ conv.samples = <<-3, 65534>>
    /\ conv.decoded.samples = <<-1, 32767>>

\* C33: an item.created whose item has a role among user, assistant and
\* system and a status among in_progress, completed, incomplete and failed
\* is accepted: the iteration that takes it leaves the handler running and
\* the item in the map with that role and status.
C33_ItemStatusesAccepted ==
    [][ (/\ channel # << >>
         /\ NextEvent.event_type = "conversation.item.created"
         /\ "item" \in DOMAIN NextEvent.data
         /\ {"id", "role", "status", "content"}
                \subseteq DOMAIN NextEvent.data.item
         /\ \A i \in DOMAIN NextEvent.data.item.content :
                /\ "type" \in DOMAIN NextEvent.data.item.content[i]
                /\ NextEvent.data.item.content[i].type \in ContentTypes
         /\ NextEvent.data.item.role \in {"user", "assistant", "system"}
         /\ NextEvent.data.item.status
                \in {"in_progress", "completed", "incomplete", "failed"}
         /\ HandleEvent(TRUE))
        => /\ handler' = "running"
           /\ NextEvent.data.item.id \in DOMAIN conversation_tracker'.item_map
           /\ conversation_tracker'.item_map[NextEvent.data.item.id].role
                = NextEvent.data.item.role
           /\ conversation_tracker'.item_map[NextEvent.data.item.id].status
                = NextEvent.data.item.status ]_vars

\* C39: no item id occurs twice in the order list: the list has as many
\* entries as the item map has keys.
C39_OrderWithoutDuplicates ==
    /\ \A i, j \in DOMAIN conversation_tracker.item_order :
            conversation_tracker.item_order[i]
                = conversation_tracker.item_order[j] => i = j
    /\ Len(conversation_tracker.item_order)
            = Cardinality(DOMAIN conversation_tracker.item_map)

\* C34: in every state of the client, also after a connect, a disconnect or
\* a send that failed, the connected flag is set exactly when the client
\* holds a send lane.
C34_FlagIffSendLane == is_connected <=> ws_write # None

\* A disconnect has failed on a refused close message, on a connection
\* whose session.update went out.
C34_Witness ==
    /\ last.op = "disconnect"
    /\ last.result = "write_failed"
    /\ is_connected
    /\ \E i \in DOMAIN wire : wire[i].conn = ws_write

\* C35: a method that is one call of send and returns an error has written
\* nothing on the send lane.
C35_FailedSendWritesNothing ==
    [][ ((\E w \in BOOLEAN : SendCall(w)) /\ last'.result # "ok")
        => wire' = wire ]_vars

\* C36: between a disconnect that returned Ok and the next connect no
\* server event is published: a step taken while the client is
\* disconnected adds no event of source server to the event stream.
C36_QuietAfterDisconnect ==
    [][ (~is_connected /\ ~is_connected')
        => \A i \in (Len(published) + 1)..Len(published') :
                published'[i].source # "server" ]_vars

\* C37: at most one task that reads inbound messages is alive.
C37_OneReaderTask ==
    Cardinality({c \in Conns : task[c] = "running"}) <= 1

\* C40: the iteration of the handler that takes an event of source client
\* leaves the conversation model and the playback channel as they were.
C40_ClientEventsInert ==
    [][ (/\ channel # << >>
         /\ NextEvent.source = "client"
         /\ \E tty \in BOOLEAN : HandleEvent(tty))
        => /\ conversation_tracker' = conversation_tracker
           /\ audio_sender' = audio_sender
           /\ handler' = "running" ]_vars

\* The handler has taken the local echoes of a session.update and of the
\* two messages of a user's text.
C40_Witness ==
    /\ handler = "running"
    /\ channel = << >>
    /\ \A i \in DOMAIN published : published[i].source = "client"
    /\ {published[i].event_type : i \in DOMAIN published}
            = {"session.update", "conversation.item.create", "response.create"}

\* C38: the event channel never holds more than its capacity of 100 events;
\* what it holds while the handler lives is the end of the event stream,
\* in order, so nothing is dropped; every publication puts exactly one
\* event at its end; and the events it holds are eventually all received
\* by the handler, or the handler has ended.
C38_BackPressure ==
    /\ [](Len(channel) <= ChannelCapacity)
    /\ [](handler # "dead"
            => /\ Len(channel) <= Len(published)
               /\ channel = SubSeq(published,
                                   Len(published) - Len(channel) + 1,
                                   Len(published)))
    /\ [][ Len(published') > Len(published)
            => /\ Len(published') = Len(published) + 1
               /\ channel' = Append(channel, published'[Len(published')])
       ]_vars
    /\ (channel # << >>) ~> (channel = << >> \/ handler = "dead")

\* The channel is full a second time: the handler has received events and
\* senders have filled the room it made.
C38_Witness ==
    /\ handler = "running"
    /\ Len(channel) = ChannelCapacity
    /\ Len(published) > ChannelCapacity
    /\ ~ENABLED SenderSends([type |-> "session.created"])

====
